---- MODULE Spec2Model ----
(***************************************************************************)
(* State-machine model of the clipsx clipboard-history engine              *)
(* (src/src-tauri/src): the change monitors, the capture loop of           *)
(* ClipboardService, the clip repository, the sidecar files, the embedding *)
(* tasks and the command handlers that write the pasteboard or delete      *)
(* clips.                                                                  *)
(*                                                                         *)
(* Four specifications share the variables and the initial state:          *)
(*   SpecCapture   the capture loop with foreign copies, deletions, the    *)
(*                 clock and failures of the database and the disk;        *)
(*   SpecRestore   the capture loop with copy_to_clipboard / paste_clip    *)
(*                 and deletions;                                          *)
(*   SpecSemantic  the capture loop with the model, the embedding tasks,   *)
(*                 generate_embedding and deletions;                       *)
(*   SpecMonitor   a ClipboardMonitor driven through its trait methods by  *)
(*                 a provider whose content is set freely, as              *)
(*                 MockClipboardProvider does in clipboard_monitor.rs.     *)
(*                                                                         *)
(* Abstractions: DefaultHasher is taken to be collision free, so a hash is *)
(* the tagged input that was fed to the hasher; byte payloads are named    *)
(* tokens; Option<T> is a sequence of length 0 or 1.                       *)
(***************************************************************************)
EXTENDS Integers, Sequences, FiniteSets, TLC

VARIABLES
    monitorKind,    \* which ClipboardMonitor create_monitor built
    pasteboard,     \* OS clipboard: Option<ClipboardContent>
    changeCount,    \* what get_change_count() returns
    monitor,        \* fields of the monitor object
    pc,             \* position of the capture loop inside check_clipboard
    cur,            \* locals of the running check_clipboard
    clips,          \* rows of table clips
    embeddings,     \* rows of table embeddings
    files,          \* sidecar files on disk
    embTasks,       \* spawned fire-and-forget embedding tasks
    model,          \* SemanticService.model and loaded_model_name
    cmd,            \* the command handler in flight
    now,            \* chrono::Utc::now().timestamp()
    nextId,         \* next value of timestamp_nanos (ids are fresh)
    loopAlive,      \* the task spawned by start_monitoring is running
    lastErr,        \* what the capture loop logged for its last tick
    lastCheck,      \* history: the last check() call, its result, its tick's events
    primed,         \* history: notify_wrote(c) came after the write of c
    origin,         \* history: who wrote the pasteboard last
    ioFault,        \* the database and the disk are failing right now
    observed,       \* history of SpecMonitor: what the last two checks saw
    search,         \* the search_clips_paginated call in flight, then its result
    call,           \* a call of a pure function: its name, argument and result
    startup,        \* the setup task of main: settings.json, the model cache, its progress
    loads,          \* the init_model calls in flight, one per caller
    modelLock,      \* who holds the write lock of SemanticService.model
    toggles,        \* the toggle_pin / toggle_favorite calls in flight, and their history
    svc,            \* the calls of SemanticService in flight: each one's position
    hasher          \* DefaultHasher: the u64 of the inputs whose value is drawn; the others' are long

vars == <<monitorKind, pasteboard, changeCount, monitor, pc, cur, clips,
          embeddings, files, embTasks, model, cmd, now, nextId, loopAlive,
          lastErr, lastCheck, primed, origin, ioFault, observed, search,
          call, startup, loads, modelLock, toggles, svc, hasher>>

(***************************************************************************)
(* Bounds                                                                  *)
(***************************************************************************)
MaxChanges == 3
MaxIds == 2
MaxTime == 1

(***************************************************************************)
(* Option<T>                                                               *)
(***************************************************************************)
None == <<>>

Some(x) == <<x>>

IsSome(o) == o # <<>>

(***************************************************************************)
(* ClipboardContent                                                        *)
(***************************************************************************)
Blank ==
    [kind |-> "Text", text |-> "", markup |-> "", data |-> "", ext |-> "",
     paths |-> <<>>, ole_data |-> None, svg_data |-> None, pdf_data |-> None,
     png_data |-> None]

Text(t) == [Blank EXCEPT !.kind = "Text", !.text = t]

Html(h, t) == [Blank EXCEPT !.kind = "Html", !.markup = h, !.text = t]

Rtf(r, t) == [Blank EXCEPT !.kind = "Rtf", !.markup = r, !.text = t]

Image(d, e) == [Blank EXCEPT !.kind = "Image", !.data = d, !.ext = e]

Files(p) == [Blank EXCEPT !.kind = "Files", !.paths = p]

Office(ole, svg, pdf, png, t) ==
    [Blank EXCEPT !.kind = "Office", !.ole_data = ole, !.svg_data = svg,
                  !.pdf_data = pdf, !.png_data = png, !.text = t]

(***************************************************************************)
(* compute_content_hash                                                    *)
(***************************************************************************)
StrHash(s) == "s:" \o s

BytesHash(b) == "b:" \o b

\* image::load_from_memory: the tokens that decode, and their pixels
Decodes(bytes) == bytes \in {"png1", "png1meta", "png2"}

Pixels(bytes) == IF bytes = "png2" THEN "px2" ELSE "px1"

compute_image_hash(bytes) ==
    IF Decodes(bytes) THEN "p:" \o Pixels(bytes) ELSE BytesHash(bytes)

RECURSIVE Join(_, _)
Join(paths, sep) ==
    IF paths = <<>> THEN ""
    ELSE IF Len(paths) = 1 THEN paths[1]
    ELSE paths[1] \o sep \o Join(Tail(paths), sep)

compute_content_hash_html_markup(c) ==
    CASE c.kind = "Text" -> StrHash(c.text)
      [] c.kind \in {"Html", "Rtf"} -> StrHash(c.markup)
      [] OTHER -> BytesHash(c.data)

compute_content_hash(c) ==
    CASE c.kind = "Text" -> StrHash(c.text)
      [] c.kind = "Html" -> StrHash(c.text)
      [] c.kind = "Rtf" -> StrHash(c.text)
      [] c.kind = "Image" -> compute_image_hash(c.data)
      [] c.kind = "Files" -> StrHash(Join(c.paths, "|"))
      [] c.kind = "Office" ->
            IF c.text # "" THEN StrHash(c.text)
            ELSE IF IsSome(c.pdf_data) THEN BytesHash(c.pdf_data[1])
            ELSE IF IsSome(c.svg_data) THEN BytesHash(c.svg_data[1])
            ELSE IF IsSome(c.png_data) THEN compute_image_hash(c.png_data[1])
            ELSE IF IsSome(c.ole_data) THEN BytesHash(c.ole_data[1])
            ELSE StrHash("")

(***************************************************************************)
(* The monitors.  rd is the result of provider.read_clipboard():           *)
(* [ok |-> FALSE] is Err, [ok |-> TRUE, val |-> o] is Ok(o).               *)
(***************************************************************************)
NewMonitor == [last_hash |-> None, last_change_count |-> 0, last_wrote_hash |-> None]

CheckResult(res, content, hash, m) ==
    [result |-> res, content |-> content, hash |-> hash, mon |-> m]

PollingMonitor_check_no_compare(m, rd) ==
    IF ~rd.ok THEN CheckResult("Err", None, None, m)
    ELSE IF rd.val = None THEN CheckResult("Unchanged", None, None, m)
    ELSE LET h == compute_content_hash(rd.val[1]) IN
         CheckResult("Changed", rd.val, Some(h), [m EXCEPT !.last_hash = Some(h)])

PollingMonitor_check(m, rd) ==
    IF ~rd.ok THEN CheckResult("Err", None, None, m)
    ELSE IF rd.val = None THEN CheckResult("Unchanged", None, None, m)
    ELSE LET h == compute_content_hash(rd.val[1]) IN
         IF m.last_hash = Some(h)
         THEN CheckResult("Unchanged", None, None, m)
         ELSE CheckResult("Changed", rd.val, Some(h), [m EXCEPT !.last_hash = Some(h)])

MacOSMonitor_check_reads_first(m, current, rd) ==
    IF ~rd.ok THEN CheckResult("Err", None, None, m)
    ELSE IF current > 0 /\ current = m.last_change_count
    THEN CheckResult("Unchanged", None, None, m)
    ELSE IF rd.val = None THEN CheckResult("Unchanged", None, None, m)
    ELSE LET h == compute_content_hash(rd.val[1]) IN
         IF m.last_wrote_hash = Some(h)
         THEN CheckResult("Unchanged", None, None,
                          [m EXCEPT !.last_change_count = current,
                                    !.last_wrote_hash = None])
         ELSE CheckResult("Changed", rd.val, Some(h),
                          [m EXCEPT !.last_wrote_hash = None,
                                    !.last_change_count = current])

MacOSMonitor_check(m, current, rd) ==
    IF current > 0 /\ current = m.last_change_count
    THEN CheckResult("Unchanged", None, None, m)
    ELSE IF ~rd.ok THEN CheckResult("Err", None, None, m)
    ELSE IF rd.val = None THEN CheckResult("Unchanged", None, None, m)
    ELSE LET h == compute_content_hash(rd.val[1]) IN
         IF m.last_wrote_hash = Some(h)
         THEN CheckResult("Unchanged", None, None,
                          [m EXCEPT !.last_change_count = current,
                                    !.last_wrote_hash = None])
         ELSE CheckResult("Changed", rd.val, Some(h),
                          [m EXCEPT !.last_wrote_hash = None,
                                    !.last_change_count = current])

check(kind, m, current, rd) ==
    IF kind = "Polling" THEN PollingMonitor_check(m, rd)
    ELSE MacOSMonitor_check(m, current, rd)

PollingMonitor_notify_wrote_nop(m, c) == m

PollingMonitor_notify_wrote(m, c) ==
    [m EXCEPT !.last_hash = Some(compute_content_hash(c))]

MacOSMonitor_notify_wrote(m, c, new_count) ==
    [m EXCEPT !.last_change_count = new_count,
              !.last_wrote_hash = Some(compute_content_hash(c))]

notify_wrote(kind, m, c, new_count) ==
    IF kind = "Polling" THEN PollingMonitor_notify_wrote(m, c)
    ELSE MacOSMonitor_notify_wrote(m, c, new_count)

\* clipboard_platform::get_change_count: changeCount on macOS, -1 elsewhere
get_change_count == IF monitorKind = "MacOS" THEN changeCount ELSE -1


(***************************************************************************)
(* Inputs                                                                  *)
(***************************************************************************)
\* what foreign applications put on the pasteboard
Contents ==
    { Text("a"),
      Html("<b>a</b>", "a"),
      Image("png1", "png"),
      Office(Some("ole1"), None, None, Some("png2"), "") }

\* the same, where only text matters (SpecRestore)
TextContents == { Text("a"), Html("<b>a</b>", "a") }

\* the same, where a row with text and a row with a sidecar file do (SpecSemantic)
SemanticContents == { Text("a"), Image("png1", "png") }

\* the text argument of copy_to_clipboard / paste_clip
CmdTexts == {"a", "b"}

ModelNames == {"all-MiniLM-L6-v2"}

(***************************************************************************)
(* ClipItem rows and the repository                                        *)
(***************************************************************************)
ClipItem(id, ctype, text, hash, t) ==
    [id |-> id, content_type |-> ctype, content_text |-> text,
     content_hash |-> hash, created_at |-> t, updated_at |-> t,
     image_path |-> None, svg_path |-> None, pdf_path |-> None,
     attachment_path |-> None, is_pinned |-> 0, is_favorite |-> 0,
     access_count |-> 0]

PathsOf(r) ==
    {p[1] : p \in {r.image_path, r.svg_path, r.pdf_path, r.attachment_path} \ {None}}

WithHash(rows, h) == {r \in rows : r.content_hash = h}

\* SELECT ... WHERE content_hash = ? LIMIT 1: the first row in rowid order
find_by_hash(rows, h) ==
    IF WithHash(rows, h) = {} THEN None
    ELSE Some(CHOOSE r \in WithHash(rows, h) :
                  \A q \in WithHash(rows, h) : r.id <= q.id)

touch_nop(rows, id, t) == rows

touch_keeps_created_at(rows, id, t) ==
    {IF r.id = id THEN [r EXCEPT !.updated_at = r.created_at] ELSE r : r \in rows}

touch(rows, id, t) ==
    {IF r.id = id THEN [r EXCEPT !.updated_at = t] ELSE r : r \in rows}

\* the schema's uniqueness of clips.content_hash (insert fails with Integrity)
IntegrityViolation(rows, clip) == WithHash(rows, clip.content_hash) # {}

insert(rows, clip) == rows \cup {clip}

delete(rows, id) == {r \in rows : r.id # id}

clear_all(rows) == {}

\* the schema's embeddings.clip_id REFERENCES clips(id) ON DELETE CASCADE
CascadeNone(embs, rows) == embs

Cascade(embs, rows) == {e \in embs : \E r \in rows : r.id = e.clip_id}

ForeignKeyHolds(rows, clip_id) == \E r \in rows : r.id = clip_id

create_embedding_dropped(embs, clip_id, m, by) == embs

\* INSERT ... ON CONFLICT(clip_id) DO UPDATE
create_embedding(embs, clip_id, m, by) ==
    {e \in embs : e.clip_id # clip_id} \cup {[clip_id |-> clip_id, model |-> m, by |-> by]}

\* SemanticService::get_model_info
get_model_info == model.loaded_model_name

\* SemanticService::is_ready
is_ready == IsSome(model.model)

(***************************************************************************)
(* The hash string.  compute_content_hash feeds its input to a             *)
(* DefaultHasher and prints finish(), a u64, with {:x}.  The model names   *)
(* a hash by what was fed (StrHash, BytesHash); hasher gives the u64 of an *)
(* input, a word of four 16-bit limbs, most significant first.             *)
(***************************************************************************)
\* a value of sixteen hexadecimal digits
LongValue == <<65535, 65535, 65535, 65535>>

\* no value is drawn: every input hashes to a long value
NoDrawn == [x \in {} |-> LongValue]

\* hasher.finish() after input.hash(&mut hasher)
finish(input) == IF input \in DOMAIN hasher THEN hasher[input] ELSE LongValue

HexDigits == <<"0", "1", "2", "3", "4", "5", "6", "7",
               "8", "9", "a", "b", "c", "d", "e", "f">>

\* the four digits of a limb
Hex4(l) ==
    <<HexDigits[((l \div 4096) % 16) + 1], HexDigits[((l \div 256) % 16) + 1],
      HexDigits[((l \div 16) % 16) + 1], HexDigits[(l % 16) + 1]>>

RECURSIVE Unpadded(_)
Unpadded(digits) ==
    IF Len(digits) > 1 /\ digits[1] = "0" THEN Unpadded(Tail(digits))
    ELSE digits

\* format!("{:x}", v): hexadecimal, no padding
format_x(v) == Unpadded(Hex4(v[1]) \o Hex4(v[2]) \o Hex4(v[3]) \o Hex4(v[4]))

\* &s[..n]: panics when n is past the end of s
slice_to(s, n) ==
    IF n <= Len(s) THEN [ok |-> TRUE, val |-> SubSeq(s, 1, n)]
    ELSE [ok |-> FALSE, val |-> <<>>]

\* eprintln!(.., &content_hash[..8])
LogPrefix == 8

(***************************************************************************)
(* Initial state: ClipboardService::new over an empty database             *)
(***************************************************************************)
\* before is history: the updated_at the row named by id had when the command began
Idle == [op |-> "idle", pc |-> "idle", text |-> "", id |-> None, by |-> None,
         before |-> None]

\* no command running, the last one returned Err from set_text
WriteFailed == [Idle EXCEPT !.op = "write_failed"]

NoCur == [content |-> None, hash |-> "", clip |-> None, existing |-> None]

NoObserved == [prev |-> None, last |-> None, seenHash |-> None, hash |-> None]

\* AppSettings: the fields the setup task and the semantic commands read
AppSettings(has_seen_welcome, semantic_search_enabled, semantic_model) ==
    [has_seen_welcome |-> has_seen_welcome,
     semantic_search_enabled |-> semantic_search_enabled,
     semantic_model |-> semantic_model]

\* AppSettings::default()
AppSettings_default == AppSettings(FALSE, FALSE, "all-MiniLM-L6-v2")

\* who calls init_model: the setup task of main and two commands
Callers == {"startup", "init_semantic_search", "change_semantic_model"}

\* no init_model call made yet by this caller
NoLoad == [pc |-> "idle", model_name |-> "", result |-> "none"]

NoLoads == [c \in Callers |-> NoLoad]

\* the setup task has finished; no settings.json, an empty model cache
NoStartup == [pc |-> "done", file |-> None, cache |-> {}, loaded |-> None,
              settings |-> AppSettings_default, save |-> "none"]

\* the callers of the toggle commands that may run at the same time
MaxInvocations == 2
Invocations == 1 .. MaxInvocations

\* no toggle command called yet; returned is history: for each id and column,
\* how many calls have returned Ok so far, modulo 2
NoToggles ==
    [calls |-> [i \in Invocations |->
                  [pc |-> "idle", column |-> "none", id |-> 0, current |-> 0,
                   result |-> "none"]],
     returned |-> [id \in 1 .. MaxIds |->
                     [column \in {"is_pinned", "is_favorite"} |-> 0]]]

\* the operations of SemanticService that take its locks
Ops == {"init_model", "unload_model", "embed", "delete_model", "is_ready",
        "get_model_info"}

\* no call of SemanticService in flight (pc 0); arg is the model_name argument
NoSvc == [pc |-> [t \in Ops |-> 0], arg |-> [t \in Ops |-> ""]]

\* no pure function called yet
NoCall == [fn |-> "none", arg |-> <<>>, result |-> <<>>]

\* no search_clips_paginated call made yet
NoSearch == [pc |-> "idle", path |-> "none", use_semantic_search |-> FALSE,
             query |-> <<>>, fts |-> <<>>, query_vector |-> <<>>, threshold |-> 0,
             offset |-> 0, limit |-> 0, scored_clips |-> <<>>,
             page_ids |-> <<>>, result |-> <<>>, panicked |-> FALSE]

NoCheck == [result |-> "None", primed |-> FALSE, origin |-> "none", time |-> 0,
            emitted |-> <<>>]

Init ==
    /\ monitorKind \in {"Polling", "MacOS"}
    /\ pasteboard = None
    /\ changeCount = 1
    /\ monitor = NewMonitor
    /\ pc = "sleep"
    /\ cur = NoCur
    /\ clips = {}
    /\ embeddings = {}
    /\ files = {}
    /\ embTasks = {}
    /\ model = [model |-> None, loaded_model_name |-> None]
    /\ cmd = Idle
    /\ now = 0
    /\ nextId = 1
    /\ loopAlive = TRUE
    /\ lastErr = "none"
    /\ lastCheck = NoCheck
    /\ primed = FALSE
    /\ origin = "none"
    /\ ioFault = FALSE
    /\ observed = NoObserved
    /\ search = NoSearch
    /\ call = NoCall
    /\ startup = NoStartup
    /\ loads = NoLoads
    /\ modelLock = "free"
    /\ toggles = NoToggles
    /\ svc = NoSvc
    /\ hasher = NoDrawn

(***************************************************************************)
(* The pasteboard                                                          *)
(***************************************************************************)
\* any write of the pasteboard bumps NSPasteboard.changeCount
CanWrite == monitorKind = "Polling" \/ changeCount < MaxChanges

Bumped == IF monitorKind = "MacOS" THEN changeCount + 1 ELSE changeCount

\* another application copies c
ForeignCopy(c) ==
    /\ CanWrite
    /\ pasteboard' = Some(c)
    /\ changeCount' = Bumped
    /\ origin' = IF /\ pasteboard = Some(c)
                    /\ origin \in {"observed", "recopy"}
                    /\ WithHash(clips, compute_content_hash(c)) # {}
                 THEN "recopy" ELSE "foreign"
    /\ primed' = FALSE
    /\ UNCHANGED <<monitorKind, monitor, pc, cur, clips, embeddings, files,
                   embTasks, model, cmd, now, nextId, loopAlive, lastErr,
                   lastCheck, ioFault, observed,
                   search, call,
                   startup, loads, modelLock, toggles, svc, hasher>>

\* the database and the disk start failing, and recover
FaultBegins ==
    /\ ~ioFault
    /\ ioFault' = TRUE
    /\ UNCHANGED <<monitorKind, pasteboard, changeCount, monitor, pc, cur,
                   clips, embeddings, files, embTasks, model, cmd, now, nextId,
                   loopAlive, lastErr, lastCheck, primed, origin, observed,
                   search, call,
                   startup, loads, modelLock, toggles, svc, hasher>>

FaultClears ==
    /\ ioFault
    /\ ioFault' = FALSE
    /\ UNCHANGED <<monitorKind, pasteboard, changeCount, monitor, pc, cur,
                   clips, embeddings, files, embTasks, model, cmd, now, nextId,
                   loopAlive, lastErr, lastCheck, primed, origin, observed,
                   search, call,
                   startup, loads, modelLock, toggles, svc, hasher>>

AdvanceClock ==
    /\ now < MaxTime
    /\ now' = now + 1
    /\ UNCHANGED <<monitorKind, pasteboard, changeCount, monitor, pc, cur,
                   clips, embeddings, files, embTasks, model, cmd, nextId,
                   loopAlive, lastErr, lastCheck, primed, origin, ioFault, observed,
                   search, call,
                   startup, loads, modelLock, toggles, svc, hasher>>


(***************************************************************************)
(* The capture loop: start_monitoring and check_clipboard                  *)
(***************************************************************************)
\* start_monitoring: if let Err(e) = check_clipboard() { eprintln! }; sleep
LogAndBreak(kind) ==
    /\ lastErr' = kind
    /\ pc' = "sleep"
    /\ loopAlive' = FALSE

LogAndContinue(kind) ==
    /\ lastErr' = kind
    /\ pc' = "sleep"
    /\ loopAlive' = loopAlive

\* a panic inside the spawned task ends the task: the loop is gone
TaskPanics ==
    /\ lastErr' = "panic"
    /\ pc' = "sleep"
    /\ loopAlive' = FALSE

\* check_clipboard returned Ok(())
TickOk ==
    /\ lastErr' = "none"
    /\ pc' = "sleep"
    /\ loopAlive' = loopAlive

\* let result = monitor.check()?  (the monitor lock is held only here)
\* then the log line of a Changed result
CaptureCheck ==
    /\ loopAlive
    /\ pc = "sleep"
    /\ nextId <= MaxIds
    /\ \E ok \in {~ioFault} :
         LET rd == [ok |-> ok, val |-> pasteboard]
             r == check(monitorKind, monitor, get_change_count, rd)
         IN /\ monitor' = r.mon
            /\ lastCheck' = [result |-> r.result, primed |-> primed,
                             origin |-> origin,
                             time |-> IF origin = "recopy" THEN now ELSE 0,
                             emitted |-> <<>>]
            /\ primed' = FALSE
            /\ origin' = IF r.result = "Err" THEN origin ELSE "observed"
            /\ IF r.result = "Err"
               THEN LogAndContinue("check") /\ cur' = cur
               ELSE IF r.result = "Unchanged"
               THEN TickOk /\ cur' = cur
               ELSE IF ~slice_to(format_x(finish(r.hash[1])), LogPrefix).ok
               THEN TaskPanics /\ cur' = cur
               ELSE /\ pc' = "build"
                    /\ cur' = [content |-> r.content, hash |-> r.hash[1],
                               clip |-> None, existing |-> None]
                    /\ UNCHANGED <<lastErr, loopAlive>>
    /\ UNCHANGED <<monitorKind, pasteboard, changeCount, clips, embeddings,
                   files, embTasks, model, cmd, now, nextId, ioFault, observed,
                   search, call,
                   startup, loads, modelLock, toggles, svc, hasher>>

\* create_image_clip: k = 1 when tokio::fs::write succeeds
create_image_clip_unchecked(c, hash, id, t, k) ==
    LET path == <<"images", id, c.ext>> IN
    [ok |-> TRUE,
     written |-> IF k >= 1 THEN {path} ELSE {},
     clip |-> [ClipItem(id, "image", "[Image: " \o ToString(id) \o "." \o c.ext \o "]", hash, t) EXCEPT !.image_path = Some(path)]]

create_image_clip(c, hash, id, t, k) ==
    LET path == <<"images", id, c.ext>> IN
    [ok |-> k >= 1,
     written |-> IF k >= 1 THEN {path} ELSE {},
     clip |-> [ClipItem(id, "image", "[Image: " \o ToString(id) \o "." \o c.ext \o "]", hash, t) EXCEPT !.image_path = Some(path)]]

\* the files create_office_clip writes, in its order
OfficeWrites(c, id) ==
    (IF IsSome(c.ole_data) THEN << <<"office", id, "bin">> >> ELSE <<>>)
    \o (IF IsSome(c.svg_data) THEN << <<"svg", id, "svg">> >> ELSE <<>>)
    \o (IF IsSome(c.pdf_data) THEN << <<"pdf", id, "pdf">> >> ELSE <<>>)
    \o (IF IsSome(c.png_data) THEN << <<"images", id, "png">> >> ELSE <<>>)

\* create_office_clip: the first k writes succeed
create_office_clip(c, hash, id, t, k) ==
    LET ws == OfficeWrites(c, id) IN
    [ok |-> k >= Len(ws),
     written |-> {ws[i] : i \in {j \in 1..Len(ws) : j <= k}},
     clip |-> [ClipItem(id, "office", c.text, hash, t) EXCEPT
                 !.attachment_path =
                     IF IsSome(c.ole_data) THEN Some(<<"office", id, "bin">>) ELSE None,
                 !.svg_path = IF IsSome(c.svg_data) THEN Some(<<"svg", id, "svg">>) ELSE None,
                 !.pdf_path = IF IsSome(c.pdf_data) THEN Some(<<"pdf", id, "pdf">>) ELSE None,
                 !.image_path =
                     IF IsSome(c.png_data) THEN Some(<<"images", id, "png">>) ELSE None]]

NumWrites(c) ==
    CASE c.kind = "Image" -> 1
      [] c.kind = "Office" -> Len(OfficeWrites(c, 0))
      [] OTHER -> 0

\* create_files_clip: the preview stored as content_text
FilesPreview(paths) ==
    IF Len(paths) = 1 THEN paths[1] ELSE ToString(Len(paths)) \o " files"

\* let clip = match content { ... }
BuildClip(c, hash, id, t, k) ==
    CASE c.kind = "Text" -> [ok |-> TRUE, written |-> {}, clip |-> ClipItem(id, "text", c.text, hash, t)]
      [] c.kind = "Html" -> [ok |-> TRUE, written |-> {}, clip |-> ClipItem(id, "html", c.text, hash, t)]
      [] c.kind = "Rtf" -> [ok |-> TRUE, written |-> {}, clip |-> ClipItem(id, "rtf", c.text, hash, t)]
      [] c.kind = "Image" -> create_image_clip(c, hash, id, t, k)
      [] c.kind = "Files" ->
            [ok |-> TRUE, written |-> {},
             clip |-> ClipItem(id, "files", FilesPreview(c.paths), hash, t)]
      [] c.kind = "Office" -> create_office_clip(c, hash, id, t, k)

CaptureBuild ==
    /\ loopAlive
    /\ pc = "build"
    /\ \E k \in IF ioFault /\ NumWrites(cur.content[1]) > 0
                THEN 0..(NumWrites(cur.content[1]) - 1)
                ELSE {NumWrites(cur.content[1])} :
         LET b == BuildClip(cur.content[1], cur.hash, nextId, now, k) IN
         /\ files' = files \cup b.written
         /\ nextId' = nextId + 1
         /\ IF b.ok
            THEN /\ pc' = "lookup"
                 /\ cur' = [cur EXCEPT !.clip = Some(b.clip)]
                 /\ UNCHANGED <<lastErr, loopAlive>>
            ELSE LogAndContinue("sidecar") /\ cur' = cur
    /\ UNCHANGED <<monitorKind, pasteboard, changeCount, monitor, clips,
                   embeddings, embTasks, model, cmd, now, lastCheck, primed,
                   origin, ioFault, observed,
                   search, call,
                   startup, loads, modelLock, toggles, svc, hasher>>

\* match self.repository.find_by_hash(&content_hash).await?
CaptureLookup_never_found ==
    /\ loopAlive
    /\ pc = "lookup"
    /\ pc' = "insert"
    /\ UNCHANGED <<monitorKind, pasteboard, changeCount, monitor, cur, clips,
                   embeddings, files, embTasks, model, cmd, now, nextId,
                   loopAlive, lastErr, lastCheck, primed, origin, ioFault, observed,
                   search, call,
                   startup, loads, modelLock, toggles, svc, hasher>>

CaptureLookup ==
    /\ loopAlive
    /\ pc = "lookup"
    /\ \E ok \in {~ioFault} :
         IF ~ok THEN LogAndContinue("lookup") /\ cur' = cur
         ELSE LET found == find_by_hash(clips, cur.hash) IN
              /\ pc' = IF IsSome(found) THEN "touch" ELSE "insert"
              /\ cur' = [cur EXCEPT !.existing =
                             IF IsSome(found) THEN Some(found[1].id) ELSE None]
              /\ UNCHANGED <<lastErr, loopAlive>>
    /\ UNCHANGED <<monitorKind, pasteboard, changeCount, monitor, clips,
                   embeddings, files, embTasks, model, cmd, now, nextId,
                   lastCheck, primed, origin, ioFault, observed,
                   search, call,
                   startup, loads, modelLock, toggles, svc, hasher>>

\* Some(existing) => self.repository.touch(&existing.id).await?
CaptureTouch ==
    /\ loopAlive
    /\ pc = "touch"
    /\ \E ok \in {~ioFault} :
         IF ~ok THEN LogAndContinue("touch") /\ clips' = clips
         ELSE /\ clips' = touch(clips, cur.existing[1], now)
              /\ pc' = "refetch"
              /\ UNCHANGED <<lastErr, loopAlive>>
    /\ UNCHANGED <<monitorKind, pasteboard, changeCount, monitor, cur,
                   embeddings, files, embTasks, model, cmd, now, nextId,
                   lastCheck, primed, origin, ioFault, observed,
                   search, call,
                   startup, loads, modelLock, toggles, svc, hasher>>

\* the task tokio::spawn starts after a successful insert
NewTask(clip, info) ==
    IF IsSome(info)
    THEN {[clip_id |-> clip.id, model_name |-> info[1], stage |-> "embed", by |-> None]}
    ELSE {}

\* None => self.repository.insert(&clip).await?; spawn the embedding task
CaptureInsert ==
    /\ loopAlive
    /\ pc = "insert"
    /\ \E ok \in {~ioFault} :
         IF ~ok THEN LogAndContinue("insert") /\ UNCHANGED <<clips, embTasks>>
         ELSE IF IntegrityViolation(clips, cur.clip[1])
         THEN LogAndContinue("integrity") /\ UNCHANGED <<clips, embTasks>>
         ELSE /\ clips' = insert(clips, cur.clip[1])
              /\ embTasks' = embTasks \cup NewTask(cur.clip[1], get_model_info)
              /\ pc' = "refetch"
              /\ UNCHANGED <<lastErr, loopAlive>>
    /\ UNCHANGED <<monitorKind, pasteboard, changeCount, monitor, cur,
                   embeddings, files, model, cmd, now, nextId, lastCheck,
                   primed, origin, ioFault, observed,
                   search, call,
                   startup, loads, modelLock, toggles, svc, hasher>>

emit_nothing(events, saved_clip) == events

\* self.app_handle.emit("clipboard_changed", &saved_clip)
emit(events, saved_clip) == Append(events, saved_clip)

\* find_by_hash again, ok_or_else("Failed to retrieve saved clip"), emit
CaptureRefetch ==
    /\ loopAlive
    /\ pc = "refetch"
    /\ \E ok \in {~ioFault} :
         IF ~ok THEN LogAndContinue("refetch") /\ lastCheck' = lastCheck
         ELSE IF find_by_hash(clips, cur.hash) = None
         THEN LogAndContinue("missing") /\ lastCheck' = lastCheck
         ELSE /\ TickOk
              /\ lastCheck' = [lastCheck EXCEPT !.emitted =
                                  emit(@, find_by_hash(clips, cur.hash)[1])]
    /\ UNCHANGED <<monitorKind, pasteboard, changeCount, monitor, cur, clips,
                   embeddings, files, embTasks, model, cmd, now, nextId,
                   primed, origin, ioFault, observed,
                   search, call,
                   startup, loads, modelLock, toggles, svc, hasher>>


(***************************************************************************)
(* Background embedding tasks (the closure spawned in check_clipboard)      *)
(***************************************************************************)
\* semantic.embed(text_clone).await
EmbedTaskEmbed(t) ==
    /\ t \in embTasks
    /\ t.stage = "embed"
    /\ modelLock = "free"
    /\ embTasks' = IF IsSome(model.model)
                   THEN (embTasks \ {t}) \cup {[t EXCEPT !.stage = "store", !.by = model.model]}
                   ELSE embTasks \ {t}
    /\ UNCHANGED <<monitorKind, pasteboard, changeCount, monitor, pc, cur,
                   clips, embeddings, files, model, cmd, now, nextId,
                   loopAlive, lastErr, lastCheck, primed, origin, ioFault, observed,
                   search, call,
                   startup, loads, modelLock, toggles, svc, hasher>>

\* repo.create_embedding(&clip_id, bytes, &model_name, dimensions).await
EmbedTaskStore(t) ==
    /\ t \in embTasks
    /\ t.stage = "store"
    /\ embTasks' = embTasks \ {t}
    /\ embeddings' = IF ForeignKeyHolds(clips, t.clip_id) /\ ~ioFault
                     THEN create_embedding(embeddings, t.clip_id, t.model_name, t.by[1])
                     ELSE embeddings
    /\ UNCHANGED <<monitorKind, pasteboard, changeCount, monitor, pc, cur,
                   clips, files, model, cmd, now, nextId, loopAlive, lastErr,
                   lastCheck, primed, origin, ioFault, observed,
                   search, call,
                   startup, loads, modelLock, toggles, svc, hasher>>

(***************************************************************************)
(* SemanticService: load and unload                                        *)
(***************************************************************************)
init_model(name) ==
    /\ model # [model |-> Some(name), loaded_model_name |-> Some(name)]
    /\ model' = [model |-> Some(name), loaded_model_name |-> Some(name)]
    /\ UNCHANGED <<monitorKind, pasteboard, changeCount, monitor, pc, cur,
                   clips, embeddings, files, embTasks, cmd, now, nextId,
                   loopAlive, lastErr, lastCheck, primed, origin, ioFault, observed,
                   search, call,
                   startup, loads, modelLock, toggles, svc, hasher>>

unload_model ==
    /\ model # [model |-> None, loaded_model_name |-> None]
    /\ model' = [model |-> None, loaded_model_name |-> None]
    /\ UNCHANGED <<monitorKind, pasteboard, changeCount, monitor, pc, cur,
                   clips, embeddings, files, embTasks, cmd, now, nextId,
                   loopAlive, lastErr, lastCheck, primed, origin, ioFault, observed,
                   search, call,
                   startup, loads, modelLock, toggles, svc, hasher>>

(***************************************************************************)
(* Commands                                                                *)
(***************************************************************************)
IdArgs == {None} \cup {Some(r.id) : r \in clips}

\* if let Some(clip_id) = id { repository.touch(&clip_id).await? }; then set_text
StartRestore(op, text, id) ==
    /\ cmd.pc = "idle"
    /\ IF IsSome(id) /\ ioFault
       THEN UNCHANGED <<clips, cmd>>
       ELSE /\ clips' = IF IsSome(id) THEN touch(clips, id[1], now) ELSE clips
            /\ cmd' = [op |-> op, pc |-> "write", text |-> text, id |-> id, by |-> None,
                       before |-> IF IsSome(id)
                                    THEN Some((CHOOSE r \in clips : r.id = id[1]).updated_at)
                                    ELSE None]
    /\ UNCHANGED <<monitorKind, pasteboard, changeCount, monitor, pc, cur,
                   embeddings, files, embTasks, model, now, nextId, loopAlive,
                   lastErr, lastCheck, primed, origin, ioFault, observed,
                   search, call,
                   startup, loads, modelLock, toggles, svc, hasher>>

copy_to_clipboard == \E text \in CmdTexts, id \in IdArgs : StartRestore("copy", text, id)

paste_clip == \E text \in CmdTexts, id \in IdArgs : StartRestore("paste", text, id)

set_text_write_ignores_error(ok, c) == [c EXCEPT !.pc = "notify"]

\* set_text: the ? after clipboard.set_text(text)
set_text_write(ok, c) == IF ok THEN [c EXCEPT !.pc = "notify"] ELSE WriteFailed

\* set_text: Clipboard::new()?.set_text(text)?
SetTextWrite ==
    /\ cmd.pc = "write"
    /\ CanWrite
    /\ \E ok \in {~ioFault} :
         IF ~ok THEN /\ cmd' = set_text_write(ok, cmd)
                     /\ UNCHANGED <<pasteboard, changeCount, origin, primed>>
         ELSE /\ pasteboard' = Some(Text(cmd.text))
              /\ changeCount' = Bumped
              /\ origin' = "self_unprimed"
              /\ primed' = FALSE
              /\ cmd' = set_text_write(ok, cmd)
    /\ UNCHANGED <<monitorKind, monitor, pc, cur, clips, embeddings, files,
                   embTasks, model, now, nextId, loopAlive, lastErr, lastCheck,
                   ioFault, observed,
                   search, call,
                   startup, loads, modelLock, toggles, svc, hasher>>

\* set_text: self.monitor.lock().await; monitor.notify_wrote(&content)
SetTextNotify ==
    /\ cmd.pc = "notify"
    /\ monitor' = notify_wrote(monitorKind, monitor, Text(cmd.text), get_change_count)
    /\ primed' = (origin = "self_unprimed")
    /\ origin' = IF origin = "self_unprimed" THEN "self_primed" ELSE origin
    /\ cmd' = IF cmd.op = "paste" THEN [cmd EXCEPT !.pc = "keys"] ELSE Idle
    /\ UNCHANGED <<monitorKind, pasteboard, changeCount, pc, cur, clips,
                   embeddings, files, embTasks, model, now, nextId, loopAlive,
                   lastErr, lastCheck, ioFault, observed,
                   search, call,
                   startup, loads, modelLock, toggles, svc, hasher>>

\* paste_clip: window.hide(); sleep(200ms); paste::simulate_paste()
PasteKeys ==
    /\ cmd.pc = "keys"
    /\ cmd' = Idle
    /\ UNCHANGED <<monitorKind, pasteboard, changeCount, monitor, pc, cur,
                   clips, embeddings, files, embTasks, model, now, nextId,
                   loopAlive, lastErr, lastCheck, primed, origin, ioFault, observed,
                   search, call,
                   startup, loads, modelLock, toggles, svc, hasher>>

\* delete_clip: repository.delete(&id)
delete_clip ==
    \E r \in clips :
      /\ ~ioFault
      /\ clips' = delete(clips, r.id)
      /\ embeddings' = Cascade(embeddings, clips')
      /\ UNCHANGED <<monitorKind, pasteboard, changeCount, monitor, pc, cur,
                     files, embTasks, model, cmd, now, nextId, loopAlive,
                     lastErr, lastCheck, primed, origin, ioFault, observed,
                   search, call,
                   startup, loads, modelLock, toggles, svc, hasher>>

\* clear_all_clips: repository.clear_all()
clear_all_clips ==
    /\ clips # {}
    /\ ~ioFault
    /\ clips' = clear_all(clips)
    /\ embeddings' = Cascade(embeddings, clips')
    /\ UNCHANGED <<monitorKind, pasteboard, changeCount, monitor, pc, cur,
                   files, embTasks, model, cmd, now, nextId, loopAlive,
                   lastErr, lastCheck, primed, origin, ioFault, observed,
                   search, call,
                   startup, loads, modelLock, toggles, svc, hasher>>

\* generate_embedding: is_ready(), get_by_id(&id)
generate_embedding ==
    /\ cmd.pc = "idle"
    /\ is_ready
    /\ ~ioFault
    /\ \E r \in clips :
         cmd' = [op |-> "generate_embedding", pc |-> "embed",
                 text |-> r.content_text, id |-> Some(r.id), by |-> None,
                 before |-> None]
    /\ UNCHANGED <<monitorKind, pasteboard, changeCount, monitor, pc, cur,
                   clips, embeddings, files, embTasks, model, now, nextId,
                   loopAlive, lastErr, lastCheck, primed, origin, ioFault, observed,
                   search, call,
                   startup, loads, modelLock, toggles, svc, hasher>>

\* generate_embedding: semantic_service.embed(text).await
GenerateEmbed ==
    /\ cmd.pc = "embed"
    /\ cmd' = IF IsSome(model.model)
              THEN [cmd EXCEPT !.pc = "store", !.by = model.model]
              ELSE Idle
    /\ UNCHANGED <<monitorKind, pasteboard, changeCount, monitor, pc, cur,
                   clips, embeddings, files, embTasks, model, now, nextId,
                   loopAlive, lastErr, lastCheck, primed, origin, ioFault, observed,
                   search, call,
                   startup, loads, modelLock, toggles, svc, hasher>>

\* generate_embedding: create_embedding(&id, bytes, "all-MiniLM-L6-v2", 384)
GenerateStore ==
    /\ cmd.pc = "store"
    /\ cmd' = Idle
    /\ embeddings' = IF ForeignKeyHolds(clips, cmd.id[1]) /\ ~ioFault
                     THEN create_embedding(embeddings, cmd.id[1], "all-MiniLM-L6-v2", cmd.by[1])
                     ELSE embeddings
    /\ UNCHANGED <<monitorKind, pasteboard, changeCount, monitor, pc, cur,
                   clips, files, embTasks, model, now, nextId, loopAlive,
                   lastErr, lastCheck, primed, origin, ioFault, observed,
                   search, call,
                   startup, loads, modelLock, toggles, svc, hasher>>

(***************************************************************************)
(* Specifications                                                          *)
(***************************************************************************)
\* one tick of the loop in start_monitoring, and copies by other applications
Capture(S) ==
    \/ \E c \in S : ForeignCopy(c)
    \/ CaptureCheck
    \/ CaptureBuild
    \/ CaptureLookup
    \/ CaptureTouch
    \/ CaptureInsert
    \/ CaptureRefetch

Deletes ==
    \/ delete_clip
    \/ clear_all_clips

Restores ==
    \/ copy_to_clipboard
    \/ paste_clip
    \/ SetTextWrite
    \/ SetTextNotify
    \/ PasteKeys

Semantic ==
    \/ \E t \in embTasks : EmbedTaskEmbed(t)
    \/ \E t \in embTasks : EmbedTaskStore(t)
    \/ \E name \in ModelNames : init_model(name)
    \/ unload_model
    \/ generate_embedding
    \/ GenerateEmbed
    \/ GenerateStore

Environment ==
    \/ AdvanceClock
    \/ FaultBegins
    \/ FaultClears

NextCapture == Capture(Contents) \/ Deletes \/ Environment

SpecCapture == Init /\ [][NextCapture]_vars

NextRestore == Capture(TextContents) \/ Restores \/ Deletes

SpecRestore == Init /\ [][NextRestore]_vars

\* restores while the pasteboard may refuse the write
NextRestoreFault ==
    Capture(TextContents) \/ Restores \/ FaultBegins \/ FaultClears

SpecRestoreFault == Init /\ [][NextRestoreFault]_vars

NextSemantic == Capture(SemanticContents) \/ Semantic \/ Deletes

SpecSemantic == Init /\ [][NextSemantic]_vars

\* tokio runs every spawned embedding task: none is left waiting for ever
EmbedTaskRuns(id) ==
    \E t \in embTasks : t.clip_id = id /\ (EmbedTaskEmbed(t) \/ EmbedTaskStore(t))

\* the capture loop and its embedding tasks, with the commands that can
\* take the model or the clip away from a task
NextEmbed ==
    \/ Capture(SemanticContents)
    \/ \E t \in embTasks : EmbedTaskEmbed(t)
    \/ \E t \in embTasks : EmbedTaskStore(t)
    \/ \E name \in ModelNames : init_model(name)
    \/ unload_model
    \/ delete_clip

SpecEmbedFair ==
    /\ Init
    /\ [][NextEmbed]_vars
    /\ \A id \in 1..MaxIds : WF_vars(EmbedTaskRuns(id))

(***************************************************************************)
(* Semantic search: search_clips_paginated over the stored embeddings.     *)
(* Scores are in hundredths; the vectors have integral norms, so that the  *)
(* cosine is exact.  usize is scaled down to UsizeModulus values.          *)
(***************************************************************************)
MaxRows == 3

UsizeModulus == 256

\* vectors stored in embeddings.vector
Vectors == {<<1, 0>>, <<3, 4>>, <<0, 0>>}

\* what semantic.embed(query) returns; <<1>> has another model's dimension
QueryVectors == {<<1, 0>>, <<1>>}

\* similarity_threshold: Option<f32>
Thresholds == {None, Some(60)}

\* offset, limit: Option<i32>
Offsets == {None} \cup {Some(n) : n \in {-1} \cup 1..MaxRows}

Limits == {None} \cup {Some(n) : n \in -1..2}

RowTexts == <<"a", "b", "c", "d", "e">>

unwrap_or(o, d) == IF IsSome(o) THEN o[1] ELSE d

RECURSIVE Dot(_, _, _)
Dot(a, b, i) == IF i > Len(a) THEN 0 ELSE a[i] * b[i] + Dot(a, b, i + 1)

\* f32::sqrt, on the squares the vectors give
Sqrt(n) == CHOOSE r \in 0..n : r * r = n

cosine_similarity(a, b) ==
    IF Len(a) # Len(b) \/ Len(a) = 0 THEN 0
    ELSE LET dot_product == Dot(a, b, 1)
             norm_a == Dot(a, a, 1)
             norm_b == Dot(b, b, 1)
         IN IF norm_a = 0 \/ norm_b = 0 THEN 0
            ELSE (dot_product * 100) \div (Sqrt(norm_a) * Sqrt(norm_b))

\* SELECT e.* FROM embeddings e INNER JOIN clips c ON e.clip_id = c.id,
\* rows in the order they were stored (the order of the clip ids)
RECURSIVE InStoredOrder(_)
InStoredOrder(es) ==
    IF es = {} THEN <<>>
    ELSE LET e == CHOOSE x \in es : \A y \in es : x.clip_id <= y.clip_id
         IN <<e>> \o InStoredOrder(es \ {e})

get_embeddings_with_filters(embs, rows) ==
    InStoredOrder({e \in embs : ForeignKeyHolds(rows, e.clip_id)})

keeps_every_score(score, threshold) == TRUE

\* if score >= threshold
keeps(score, threshold) == score >= threshold

\* all_embeddings.into_iter().filter_map(..).collect()
RECURSIVE filter_map(_, _, _)
filter_map(all_embeddings, query_vector, threshold) ==
    IF all_embeddings = <<>> THEN <<>>
    ELSE LET emb == Head(all_embeddings)
             score == cosine_similarity(query_vector, emb.vector)
             rest == filter_map(Tail(all_embeddings), query_vector, threshold)
         IN IF keeps(score, threshold)
            THEN <<[id |-> emb.clip_id, score |-> score]>> \o rest
            ELSE rest

\* scored_clips.sort_by(|a, b| b.1.partial_cmp(&a.1)): stable, score descending
RECURSIVE sort_by(_)
sort_by(s) ==
    IF s = <<>> THEN <<>>
    ELSE LET i == CHOOSE k \in 1..Len(s) :
                    /\ \A j \in 1..Len(s) : s[j].score <= s[k].score
                    /\ \A j \in 1..(k - 1) : s[j].score < s[k].score
         IN <<s[i]>> \o sort_by(SubSeq(s, 1, i - 1) \o SubSeq(s, i + 1, Len(s)))

\* offset_val as usize, limit_val as usize
as_usize(v) == v % UsizeModulus

\* start, end and the slice scored_clips[start..end]; build is the profile:
\* the addition panics on overflow in a debug build and wraps in a release one
Paginate(scored_clips, offset_val, limit_val, build) ==
    LET len == Len(scored_clips)
        start == as_usize(offset_val)
        sum == start + as_usize(limit_val)
        wrapped == sum % UsizeModulus
        end == IF wrapped < len THEN wrapped ELSE len
    IN IF sum >= UsizeModulus /\ build = "debug"
       THEN [panicked |-> TRUE, done |-> TRUE, page |-> <<>>]
       ELSE IF start >= len
       THEN [panicked |-> FALSE, done |-> TRUE, page |-> <<>>]
       ELSE IF start > end
       THEN [panicked |-> TRUE, done |-> TRUE, page |-> <<>>]
       ELSE [panicked |-> FALSE, done |-> FALSE,
             page |-> SubSeq(scored_clips, start + 1, end)]

\* SELECT clips.* WHERE id IN (..), then re-ordered to the order of ids
RECURSIVE get_clips_by_ids(_, _)
get_clips_by_ids(rows, ids) ==
    IF ids = <<>> THEN <<>>
    ELSE LET found == {r \in rows : r.id = Head(ids)}
             rest == get_clips_by_ids(rows, Tail(ids))
         IN IF found = {} THEN rest ELSE <<CHOOSE r \in found : TRUE>> \o rest

\* scored_clips.iter().find(|(id, _)| id == &clip.id)
ScoreOf(scored_clips, id) ==
    LET k == CHOOSE i \in 1..Len(scored_clips) :
                  /\ scored_clips[i].id = id
                  /\ \A j \in 1..(i - 1) : scored_clips[j].id # id
    IN scored_clips[k].score

\* char::is_whitespace; "nbsp" stands for U+00A0 and "lf" for U+000A
WhiteSpace == {" ", "nbsp", "lf"}

\* str::trim_start
RECURSIVE trim_start(_)
trim_start(s) ==
    IF s # <<>> /\ Head(s) \in WhiteSpace THEN trim_start(Tail(s)) ELSE s

\* str::trim_end
RECURSIVE trim_end(_)
trim_end(s) ==
    IF s # <<>> /\ s[Len(s)] \in WhiteSpace
    THEN trim_end(SubSeq(s, 1, Len(s) - 1)) ELSE s

\* str::trim
trim(s) == trim_end(trim_start(s))

\* the query argument, as a sequence of characters
SearchQueries == {<<>>, <<" ", "nbsp">>, <<"nbsp", "a", " ">>}

takes_semantic_when_requested(use_semantic_search, ready, query) ==
    use_semantic_search

\* if use_semantic_search && is_ready() && !query.trim().is_empty()
takes_semantic(use_semantic_search, ready, query) ==
    use_semantic_search /\ ready /\ trim(query) # <<>>

\* the fallback: repository.search_paginated(&query, filter_types, limit_val, offset_val)
SearchFts(use_semantic_search, query, offset, limit) ==
    /\ search.pc = "idle"
    /\ search' = [NoSearch EXCEPT
                    !.pc = "done",
                    !.path = "fts",
                    !.use_semantic_search = use_semantic_search,
                    !.query = query,
                    !.offset = unwrap_or(offset, 0),
                    !.limit = unwrap_or(limit, 50),
                    !.fts = <<query, unwrap_or(limit, 50), unwrap_or(offset, 0)>>]
    /\ UNCHANGED <<monitorKind, pasteboard, changeCount, monitor, pc, cur,
                   clips, embeddings, files, embTasks, model, cmd, now, nextId,
                   loopAlive, lastErr, lastCheck, primed, origin, ioFault,
                   observed, call,
                   startup, loads, modelLock, toggles, svc, hasher>>

\* search_clips_paginated, semantic path, up to the page of ids
SearchRank(query, query_vector, similarity_threshold, offset, limit, build) ==
    /\ search.pc = "idle"
    /\ LET threshold == unwrap_or(similarity_threshold, 30)
           offset_val == unwrap_or(offset, 0)
           limit_val == unwrap_or(limit, 50)
           all_embeddings == get_embeddings_with_filters(embeddings, clips)
           scored_clips == sort_by(filter_map(all_embeddings, query_vector, threshold))
           p == Paginate(scored_clips, offset_val, limit_val, build)
       IN search' = [pc |-> IF p.done THEN "done" ELSE "fetch",
                     path |-> "semantic",
                     use_semantic_search |-> TRUE,
                     query |-> query,
                     fts |-> <<>>,
                     query_vector |-> query_vector,
                     threshold |-> threshold,
                     offset |-> offset_val,
                     limit |-> limit_val,
                     scored_clips |-> scored_clips,
                     page_ids |-> [i \in 1..Len(p.page) |-> p.page[i].id],
                     result |-> <<>>,
                     panicked |-> p.panicked]
    /\ UNCHANGED <<monitorKind, pasteboard, changeCount, monitor, pc, cur,
                   clips, embeddings, files, embTasks, model, cmd, now, nextId,
                   loopAlive, lastErr, lastCheck, primed, origin, ioFault,
                   observed, call,
                   startup, loads, modelLock, toggles, svc, hasher>>

\* get_clips_by_ids(&page_ids), sort to the scored order, attach the scores
SearchFetch ==
    /\ search.pc = "fetch"
    /\ LET found == get_clips_by_ids(clips, search.page_ids)
       IN search' = [search EXCEPT
                       !.pc = "done",
                       !.result = [i \in 1..Len(found) |->
                                     [id |-> found[i].id,
                                      similarity_score |->
                                          Some(ScoreOf(search.scored_clips, found[i].id))]]]
    /\ UNCHANGED <<monitorKind, pasteboard, changeCount, monitor, pc, cur,
                   clips, embeddings, files, embTasks, model, cmd, now, nextId,
                   loopAlive, lastErr, lastCheck, primed, origin, ioFault,
                   observed, call,
                   startup, loads, modelLock, toggles, svc, hasher>>

search_clips_paginated ==
    \E use_semantic_search \in BOOLEAN, query \in SearchQueries,
       offset \in Offsets, limit \in Limits :
       IF takes_semantic(use_semantic_search, is_ready, query)
       THEN \E query_vector \in QueryVectors, similarity_threshold \in Thresholds,
               build \in {"debug", "release"} :
               SearchRank(query, query_vector, similarity_threshold, offset, limit, build)
       ELSE SearchFts(use_semantic_search, query, offset, limit)

\* a database of up to MaxRows text clips with their embeddings, the model
\* loaded or not
InitSearch ==
    /\ monitorKind \in {"Polling"}
    /\ pasteboard = None
    /\ changeCount = 1
    /\ monitor = NewMonitor
    /\ pc = "sleep"
    /\ cur = NoCur
    /\ \E n \in 0..MaxRows :
         /\ clips = {ClipItem(i, "text", RowTexts[i], StrHash(RowTexts[i]), 0) :
                        i \in 1..n}
         /\ \E v \in [1..n -> Vectors] :
              embeddings = {[clip_id |-> i, model |-> "all-MiniLM-L6-v2",
                             by |-> "all-MiniLM-L6-v2", vector |-> v[i]] :
                               i \in 1..n}
         /\ nextId = n + 1
    /\ files = {}
    /\ embTasks = {}
    /\ model \in {[model |-> Some("all-MiniLM-L6-v2"),
                   loaded_model_name |-> Some("all-MiniLM-L6-v2")],
                  [model |-> None, loaded_model_name |-> None]}
    /\ cmd = Idle
    /\ now = 0
    /\ loopAlive = TRUE
    /\ lastErr = "none"
    /\ lastCheck = NoCheck
    /\ primed = FALSE
    /\ origin = "none"
    /\ ioFault = FALSE
    /\ observed = NoObserved
    /\ search = NoSearch
    /\ call = NoCall
    /\ startup = NoStartup
    /\ loads = NoLoads
    /\ modelLock = "free"
    /\ toggles = NoToggles
    /\ svc = NoSvc
    /\ hasher = NoDrawn

NextSearch == search_clips_paginated \/ SearchFetch \/ delete_clip

SpecSearch == InitSearch /\ [][NextSearch]_vars

(***************************************************************************)
(* Full-text search: ClipRepository::search_paginated and its escaping.    *)
(* A string is the sequence of its characters; "nul" stands for U+0000.    *)
(***************************************************************************)
MaxQueryLen == 4

QueryChars == {"a", " ", "nbsp", "\"", "*", "nul"}

Queries == UNION {[1..n -> QueryChars] : n \in 0..MaxQueryLen}

\* str::split_whitespace
RECURSIVE split_whitespace(_)
split_whitespace(s) ==
    LET t == trim_start(s) IN
    IF t = <<>> THEN <<>>
    ELSE LET n == CHOOSE k \in 1..Len(t) :
                      /\ \A i \in 1..k : t[i] \notin WhiteSpace
                      /\ k = Len(t) \/ t[k + 1] \in WhiteSpace
         IN <<SubSeq(t, 1, n)>> \o split_whitespace(SubSeq(t, n + 1, Len(t)))

replace_nothing(token) == token

\* token.replace('"', "\"\"")
RECURSIVE replace(_)
replace(token) ==
    IF token = <<>> THEN <<>>
    ELSE (IF Head(token) = "\"" THEN <<"\"", "\"">> ELSE <<Head(token)>>)
         \o replace(Tail(token))

\* escaped_tokens.join(" AND ")
RECURSIVE join(_)
join(escaped_tokens) ==
    IF Len(escaped_tokens) = 1 THEN escaped_tokens[1]
    ELSE escaped_tokens[1] \o <<" ", "A", "N", "D", " ">> \o join(Tail(escaped_tokens))

escape_fts5_query(query) ==
    LET trimmed == trim(query) IN
    IF trimmed = <<>> THEN <<"\"", "\"">>
    ELSE LET tokens == split_whitespace(trimmed) IN
         IF tokens = <<>> THEN <<"\"", "\"">>
         ELSE join([i \in 1..Len(tokens) |->
                      <<"\"">> \o replace(tokens[i]) \o <<"\"", "*">>])

\* search_paginated: the escaped query, and whether it is bound to MATCH
search_paginated ==
    /\ call.fn = "none"
    /\ \E query \in Queries :
         LET escaped_query == escape_fts5_query(query) IN
         call' = [fn |-> "search_paginated", arg |-> query,
                  result |-> [escaped_query |-> escaped_query,
                              has_text_query |-> escaped_query # <<"\"", "\"">>]]
    /\ UNCHANGED <<monitorKind, pasteboard, changeCount, monitor, pc, cur,
                   clips, embeddings, files, embTasks, model, cmd, now, nextId,
                   loopAlive, lastErr, lastCheck, primed, origin, ioFault,
                   observed, search,
                   startup, loads, modelLock, toggles, svc, hasher>>

SpecFts == Init /\ [][search_paginated]_vars

(***************************************************************************)
(* Content classification (services/intelligence.rs).  A text is a        *)
(* sequence of characters, each a one-character string ("lf" stands for   *)
(* U+000A and "nbsp" for U+00A0).                                          *)
(***************************************************************************)
\* the characters of a string literal, in order
Chars(str) == [i \in 1..Len(str) |-> SubSeq(str, i, i)]

Range(s) == {s[i] : i \in 1..Len(s)}

Lower == Range(Chars("abcdefghijklmnopqrstuvwxyz"))

Upper == Range(Chars("ABCDEFGHIJKLMNOPQRSTUVWXYZ"))

Digit == Range(Chars("0123456789"))

HexDigit == Digit \cup Range(Chars("abcdefABCDEF"))

\* char::is_ascii_alphanumeric
is_ascii_alphanumeric(c) == c \in Lower \cup Upper \cup Digit

\* str::len counts bytes: U+00A0 takes two bytes in UTF-8, the others one
RECURSIVE len(_)
len(text) ==
    IF text = <<>> THEN 0
    ELSE (IF Head(text) = "nbsp" THEN 2 ELSE 1) + len(Tail(text))

\* str::starts_with
starts_with(text, pat) ==
    Len(text) >= Len(pat) /\ SubSeq(text, 1, Len(pat)) = pat

\* str::contains
contains(text, pat) ==
    \E i \in 1..(Len(text) - Len(pat) + 1) : SubSeq(text, i, i + Len(pat) - 1) = pat

\* char::to_uppercase on the letters a..z, every other character is kept
to_uppercase(text) ==
    [i \in 1..Len(text) |->
        IF text[i] \in Lower
        THEN LET k == CHOOSE k \in 1..26 : Chars("abcdefghijklmnopqrstuvwxyz")[k] = text[i]
             IN  Chars("ABCDEFGHIJKLMNOPQRSTUVWXYZ")[k]
        ELSE text[i]]

\* str::split on one character
RECURSIVE split(_, _)
split(text, sep) ==
    IF \E i \in 1..Len(text) : text[i] = sep
    THEN LET i == CHOOSE i \in 1..Len(text) :
                    text[i] = sep /\ \A j \in 1..(i - 1) : text[j] # sep
         IN  <<SubSeq(text, 1, i - 1)>> \o split(SubSeq(text, i + 1, Len(text)), sep)
    ELSE <<text>>

(***************************************************************************)
(* The regex crate's patterns, as syntax trees, and its matcher: the       *)
(* positions at which a match of re that starts at position i of text can  *)
(* end.  Every pattern of this file is anchored with ^ and $.              *)
(***************************************************************************)
In(chars) == <<"in", chars>>

NotIn(chars) == <<"not", chars>>

Then(a, b) == <<"then", a, b>>

Or(a, b) == <<"or", a, b>>

\* a{lo,hi}; hi = -1 stands for no upper limit
Repeat(a, lo, hi) == <<"repeat", a, lo, hi>>

Opt(a) == Repeat(a, 0, 1)

Star(a) == Repeat(a, 0, -1)

Plus(a) == Repeat(a, 1, -1)

RECURSIVE Cat(_)
Cat(res) == IF Len(res) = 1 THEN res[1] ELSE Then(Head(res), Cat(Tail(res)))

Lit(str) == Cat([i \in 1..Len(str) |-> In({SubSeq(str, i, i)})])

RECURSIVE Ends(_, _, _)
RECURSIVE RepeatEnds(_, _, _, _, _, _)
Ends(re, text, i) ==
    CASE re[1] = "in"     -> IF i <= Len(text) /\ text[i] \in re[2] THEN {i + 1} ELSE {}
      [] re[1] = "not"    -> IF i <= Len(text) /\ text[i] \notin re[2] THEN {i + 1} ELSE {}
      [] re[1] = "then"   -> UNION {Ends(re[3], text, j) : j \in Ends(re[2], text, i)}
      [] re[1] = "or"     -> Ends(re[2], text, i) \cup Ends(re[3], text, i)
      [] re[1] = "repeat" -> RepeatEnds(re[2], re[3], re[4], text, {i}, 0)

RepeatEnds(a, lo, hi, text, from, n) ==
    IF from = {} THEN {}
    ELSE (IF n >= lo THEN from ELSE {})
         \cup (IF hi # -1 /\ n >= hi THEN {}
               ELSE RepeatEnds(a, lo, hi, text,
                               UNION {Ends(a, text, j) \ {j} : j \in from}, n + 1))

\* Regex::is_match of a pattern written between ^ and $
is_match(re, text) == (Len(text) + 1) \in Ends(re, text, 1)

\* DetectionResult; of the metadata only the unit of a timestamp is kept
DetectionResult(detected_type, unit) == [detected_type |-> detected_type, unit |-> unit]

(***************************************************************************)
(* i64 values are kept as a sign and the decimal digits without leading    *)
(* zeros, so that thirteen-digit values are compared exactly.              *)
(***************************************************************************)
RECURSIVE StripZeros(_)
StripZeros(ds) ==
    IF Len(ds) > 1 /\ Head(ds) = "0" THEN StripZeros(Tail(ds)) ELSE ds

DigitValue(c) == (CHOOSE k \in 1..10 : Chars("0123456789")[k] = c) - 1

\* a <= b for two digit strings without leading zeros
RECURSIVE DigitsLe(_, _)
DigitsLe(a, b) ==
    IF Len(a) # Len(b) THEN Len(a) < Len(b)
    ELSE IF a = <<>> THEN TRUE
    ELSE IF Head(a) # Head(b) THEN DigitValue(Head(a)) < DigitValue(Head(b))
    ELSE DigitsLe(Tail(a), Tail(b))

I64(str) == [neg |-> FALSE, digits |-> Chars(str)]

\* a <= b on i64 values
le(a, b) ==
    IF a.neg /\ ~b.neg THEN TRUE
    ELSE IF ~a.neg /\ b.neg THEN FALSE
    ELSE IF a.neg THEN DigitsLe(b.digits, a.digits)
    ELSE DigitsLe(a.digits, b.digits)

\* str::parse::<i64>: an optional sign, then one or more ASCII digits, within
\* the range of i64
parse(text) ==
    LET signed == text # <<>> /\ Head(text) \in {"+", "-"}
        body   == IF signed THEN Tail(text) ELSE text
        digits == StripZeros(body)
        zero   == digits = <<"0">>
        neg    == signed /\ Head(text) = "-" /\ ~zero
        limit  == IF neg THEN Chars("9223372036854775808")
                         ELSE Chars("9223372036854775807")
    IN  IF body = <<>> \/ \E i \in 1..Len(body) : body[i] \notin Digit THEN None
        ELSE IF ~DigitsLe(digits, limit) THEN None
        ELSE Some([neg |-> neg, digits |-> digits])

MIN_CODE_LENGTH == 20

MIN_TIMESTAMP == I64("978307200")

MAX_TIMESTAMP == I64("2208988800")

\* MIN_TIMESTAMP * 1000 and MAX_TIMESTAMP * 1000
MIN_TIMESTAMP_MS == [MIN_TIMESTAMP EXCEPT !.digits = @ \o Chars("000")]

MAX_TIMESTAMP_MS == [MAX_TIMESTAMP EXCEPT !.digits = @ \o Chars("000")]

(***************************************************************************)
(* url::Url::parse of a text that URL_REGEX matched (scheme http or https, *)
(* no white space).  After the scheme every further slash or backslash is  *)
(* skipped; the authority runs to the next of / \ ? #; it is split into    *)
(* user information, host and port.  The parse fails on an empty host, on  *)
(* a forbidden host code point, on a port that is not a number up to       *)
(* 65535, and on a numeric host (read as an IPv4 address) above 2^32 - 1.  *)
(* A host that opens with [ must be an IPv6 literal; none of the texts     *)
(* holds one, so such a host fails.  Path, query and fragment never fail.  *)
(***************************************************************************)
ForbiddenHost ==
    {"nul", "lf", " ", "#", "%", "/", ":", "<", ">", "?", "@", "[", "\\", "]", "^", "|"}

RECURSIVE SkipWhile(_, _, _)
SkipWhile(text, i, chars) ==
    IF i <= Len(text) /\ text[i] \in chars THEN SkipWhile(text, i + 1, chars) ELSE i

RECURSIVE SkipUntil(_, _, _)
SkipUntil(text, i, chars) ==
    IF i <= Len(text) /\ text[i] \notin chars THEN SkipUntil(text, i + 1, chars) ELSE i

LastIndexOf(s, c) ==
    IF \E i \in 1..Len(s) : s[i] = c
    THEN CHOOSE i \in 1..Len(s) : s[i] = c /\ \A j \in (i + 1)..Len(s) : s[j] # c
    ELSE 0

Url_parse(text) ==
    LET colon     == SkipUntil(text, 1, {":"})
        start     == SkipWhile(text, colon + 1, {"/", "\\"})
        stop      == SkipUntil(text, start, {"/", "\\", "?", "#"})
        authority == SubSeq(text, start, stop - 1)
        hostport  == SubSeq(authority, LastIndexOf(authority, "@") + 1, Len(authority))
        hostEnd   == SkipUntil(hostport, 1, {":"})
        host      == SubSeq(hostport, 1, hostEnd - 1)
        port      == SubSeq(hostport, hostEnd + 1, Len(hostport))
    IN  /\ host # <<>>
        /\ \A i \in 1..Len(host) : host[i] \notin ForbiddenHost
        /\ \A i \in 1..Len(port) : port[i] \in Digit
        /\ port # <<>> => DigitsLe(StripZeros(port), Chars("65535"))
        /\ (\A i \in 1..Len(host) : host[i] \in Digit)
               => DigitsLe(StripZeros(host), Chars("4294967295"))

URL_REGEX == Cat(<<Lit("http"), Opt(In({"s"})), Lit("://"), Plus(NotIn(WhiteSpace))>>)

detect_url(text) ==
    IF ~is_match(URL_REGEX, text) THEN None
    ELSE IF ~Url_parse(text) THEN None
    ELSE Some(DetectionResult("url", "none"))

Spaces == Star(In(WhiteSpace))

Digits13 == Repeat(In(Digit), 1, 3)

\* (?:,\s*([01]?\.?\d*))?
Alpha == Opt(Cat(<<In({","}), Spaces, Opt(In({"0", "1"})), Opt(In({"."})), Star(In(Digit))>>))

HEX_REGEX ==
    Then(In({"#"}), Or(Repeat(In(HexDigit), 3, 3),
                       Or(Repeat(In(HexDigit), 6, 6), Repeat(In(HexDigit), 8, 8))))

RGB_REGEX ==
    Cat(<<Lit("rgb"), Opt(In({"a"})), In({"("}), Spaces, Digits13, Spaces, In({","}),
          Spaces, Digits13, Spaces, In({","}), Spaces, Digits13, Spaces, Alpha, Spaces,
          In({")"})>>)

HSL_REGEX ==
    Cat(<<Lit("hsl"), Opt(In({"a"})), In({"("}), Spaces, Digits13, Spaces, In({","}),
          Spaces, Digits13, In({"%"}), Spaces, In({","}), Spaces, Digits13, In({"%"}),
          Spaces, Alpha, Spaces, In({")"})>>)

detect_color(text) ==
    IF is_match(HEX_REGEX, text) THEN Some(DetectionResult("color", "none"))
    ELSE IF is_match(RGB_REGEX, text) THEN Some(DetectionResult("color", "none"))
    ELSE IF is_match(HSL_REGEX, text) THEN Some(DetectionResult("color", "none"))
    ELSE None

EMAIL_REGEX ==
    Cat(<<Plus(In(Lower \cup Upper \cup Digit \cup {".", "_", "%", "+", "-"})),
          In({"@"}),
          Plus(In(Lower \cup Upper \cup Digit \cup {".", "-"})),
          In({"."}),
          Repeat(In(Lower \cup Upper), 2, -1)>>)

detect_email(text) ==
    IF ~is_match(EMAIL_REGEX, text) THEN None
    ELSE Some(DetectionResult("email", "none"))

(***************************************************************************)
(* serde_json::from_str::<Value>: a recursive-descent reading of one JSON  *)
(* value.  Each operator returns the position after what it read, 0 when   *)
(* the text is not JSON.                                                   *)
(***************************************************************************)
JsonWhiteSpace == {" ", "lf"}

JsonNumber ==
    Cat(<<Opt(In({"-"})),
          Or(In({"0"}), Then(In(Digit \ {"0"}), Star(In(Digit)))),
          Opt(Then(In({"."}), Plus(In(Digit)))),
          Opt(Cat(<<In({"e", "E"}), Opt(In({"+", "-"})), Plus(In(Digit))>>))>>)

Max(S) == CHOOSE x \in S : \A y \in S : y <= x

RECURSIVE parse_str(_, _)
parse_str(text, i) ==
    IF i > Len(text) THEN 0
    ELSE IF text[i] = "\"" THEN i + 1
    ELSE IF text[i] \in {"lf", "nul"} THEN 0
    ELSE IF text[i] = "\\"
         THEN IF i + 1 > Len(text) THEN 0
              ELSE IF text[i + 1] \in {"\"", "\\", "/", "b", "f", "n", "r", "t"}
                   THEN parse_str(text, i + 2)
              ELSE IF /\ text[i + 1] = "u"
                      /\ i + 5 <= Len(text)
                      /\ \A k \in (i + 2)..(i + 5) : text[k] \in HexDigit
                   THEN parse_str(text, i + 6)
              ELSE 0
    ELSE parse_str(text, i + 1)

RECURSIVE parse_value(_, _)
RECURSIVE parse_seq(_, _)
RECURSIVE parse_map(_, _)
parse_value(text, i) ==
    LET j == SkipWhile(text, i, JsonWhiteSpace) IN
    IF j > Len(text) THEN 0
    ELSE IF text[j] = "[" 
         THEN LET k == SkipWhile(text, j + 1, JsonWhiteSpace) IN
              IF k <= Len(text) /\ text[k] = "]" THEN k + 1 ELSE parse_seq(text, k)
    ELSE IF text[j] = "{"
         THEN LET k == SkipWhile(text, j + 1, JsonWhiteSpace) IN
              IF k <= Len(text) /\ text[k] = "}" THEN k + 1 ELSE parse_map(text, k)
    ELSE IF text[j] = "\"" THEN parse_str(text, j + 1)
    ELSE IF text[j] \in Digit \cup {"-"}
         THEN LET ends == Ends(JsonNumber, text, j) IN
              IF ends = {} THEN 0
              ELSE IF Max(ends) <= Len(text) /\ text[Max(ends)] \in Digit THEN 0
              ELSE Max(ends)
    ELSE IF starts_with(SubSeq(text, j, Len(text)), Chars("true")) THEN j + 4
    ELSE IF starts_with(SubSeq(text, j, Len(text)), Chars("null")) THEN j + 4
    ELSE IF starts_with(SubSeq(text, j, Len(text)), Chars("false")) THEN j + 5
    ELSE 0

\* the elements of an array, from the first one to the closing bracket
parse_seq(text, i) ==
    LET e == parse_value(text, i)
        m == SkipWhile(text, e, JsonWhiteSpace)
    IN  IF e = 0 \/ m > Len(text) THEN 0
        ELSE IF text[m] = "]" THEN m + 1
        ELSE IF text[m] = "," THEN parse_seq(text, m + 1)
        ELSE 0

\* the members of an object, from the first key to the closing brace
parse_map(text, i) ==
    LET k == SkipWhile(text, i, JsonWhiteSpace)
        s == IF k <= Len(text) /\ text[k] = "\"" THEN parse_str(text, k + 1) ELSE 0
        c == SkipWhile(text, s, JsonWhiteSpace)
        e == IF s # 0 /\ c <= Len(text) /\ text[c] = ":" THEN parse_value(text, c + 1) ELSE 0
        m == SkipWhile(text, e, JsonWhiteSpace)
    IN  IF e = 0 \/ m > Len(text) THEN 0
        ELSE IF text[m] = "}" THEN m + 1
        ELSE IF text[m] = "," THEN parse_map(text, m + 1)
        ELSE 0

\* a value, then nothing but white space
from_str(text) ==
    LET e == parse_value(text, 1) IN
    e # 0 /\ SkipWhile(text, e, JsonWhiteSpace) = Len(text) + 1

detect_json(text) ==
    IF text = <<>> THEN None
    ELSE IF Head(text) # "{" /\ Head(text) # "[" THEN None
    ELSE IF ~from_str(text) THEN None
    ELSE Some(DetectionResult("json", "none"))

UNIX_PATH ==
    Then(In({"~", "/"}),
         Plus(In(Lower \cup Upper \cup Digit \cup {"_", ".", "/", " ", "-"})))

WIN_PATH ==
    Cat(<<In(Upper), In({":"}), In({"\\"}),
          Plus(In(Lower \cup Upper \cup Digit \cup {"_", ".", "\\", " ", "-"}))>>)

detect_path(text) ==
    IF len(text) < 3 \/ contains(text, <<"lf">>) THEN None
    ELSE IF ~is_match(UNIX_PATH, text) /\ ~is_match(WIN_PATH, text) THEN None
    ELSE Some(DetectionResult("path", "none"))

is_base64url(s) ==
    /\ s # <<>>
    /\ \A i \in 1..Len(s) : is_ascii_alphanumeric(s[i]) \/ s[i] \in {"-", "_", "="}

detect_jwt(text) ==
    IF ~starts_with(text, Chars("eyJ")) THEN None
    ELSE LET parts == split(text, ".") IN
         IF Len(parts) # 3 THEN None
         ELSE IF ~\A i \in 1..Len(parts) : is_base64url(parts[i]) THEN None
         ELSE Some(DetectionResult("jwt", "none"))

detect_timestamp_below_max(text) ==
    LET value == parse(text) IN
    IF value = None THEN None
    ELSE IF le(MIN_TIMESTAMP, value[1]) /\ ~le(MAX_TIMESTAMP, value[1])
         THEN Some(DetectionResult("timestamp", "seconds"))
    ELSE IF le(MIN_TIMESTAMP_MS, value[1]) /\ ~le(MAX_TIMESTAMP_MS, value[1])
         THEN Some(DetectionResult("timestamp", "milliseconds"))
    ELSE None

\* the seconds range is tried before the milliseconds range
detect_timestamp(text) ==
    LET value == parse(text) IN
    IF value = None THEN None
    ELSE IF le(MIN_TIMESTAMP, value[1]) /\ le(value[1], MAX_TIMESTAMP)
         THEN Some(DetectionResult("timestamp", "seconds"))
    ELSE IF le(MIN_TIMESTAMP_MS, value[1]) /\ le(value[1], MAX_TIMESTAMP_MS)
         THEN Some(DetectionResult("timestamp", "milliseconds"))
    ELSE None

language_table ==
    << <<"rust", <<"fn ", "pub ", "let ", "mut ", "impl ", "struct ", "enum ", "use ",
                   "mod ", "match ", "crate::", "-> ", "=> ">> >>,
       <<"python", <<"def ", "import ", "from ", "class ", "self.", "elif ", "print(",
                     "return ", "__init__", "lambda ">> >>,
       <<"javascript", <<"const ", "let ", "var ", "function ", "=> ", "async ", "await ",
                         "import ", "export ", "require(">> >>,
       <<"typescript", <<"interface ", "type ", "const ", "let ", "export ", "import ",
                         "=> ", "async ", ": string", ": number">> >>,
       <<"sql", <<"SELECT ", "FROM ", "WHERE ", "INSERT ", "UPDATE ", "DELETE ", "JOIN ",
                  "CREATE ", "ALTER ", "DROP ">> >>,
       <<"go", <<"func ", "package ", "import ", "type ", "struct ", "interface ", "go ",
                 "defer ", "chan ", "range ">> >>,
       <<"java", <<"public ", "private ", "protected ", "class ", "interface ", "void ",
                   "static ", "final ", "import ", "extends ">> >>,
       <<"csharp", <<"public ", "private ", "class ", "namespace ", "using ", "void ",
                     "static ", "async ", "var ", "new ">> >>,
       <<"html", <<"<div", "<span", "<html", "<body", "<head", "<script", "<style",
                   "</div>", "class=\"", "id=\"">> >>,
       <<"css", <<"color:", "margin:", "padding:", "display:", "font-size:",
                  "background:", "border:", "width:", "height:", "flex">> >>,
       <<"shell", <<"#!/bin", "echo ", "export ", "if [ ", "then", "fi", "done", "do",
                    "while ", "for ">> >> >>

structural_table == <<"{", "}", "()", "[];", "=>", "->", "//", "/*", "*/", "##">>

\* the keywords and the structural tokens as character sequences
languages ==
    [l \in 1..Len(language_table) |->
        <<language_table[l][1],
          [k \in 1..Len(language_table[l][2]) |-> Chars(language_table[l][2][k])]>>]

structural == [k \in 1..Len(structural_table) |-> Chars(structural_table[k])]

\* the number of keywords of one language that occur in the text; sql, html
\* and css are matched without regard to case
score(lang, keywords, text, upper) ==
    IF lang \in {"sql", "html", "css"}
    THEN Cardinality({k \in 1..Len(keywords) : contains(upper, to_uppercase(keywords[k]))})
    ELSE Cardinality({k \in 1..Len(keywords) : contains(text, keywords[k])})

detect_code(text) ==
    IF len(text) < MIN_CODE_LENGTH THEN None
    ELSE LET structural_score ==
                 Cardinality({k \in 1..Len(structural) : contains(text, structural[k])})
             upper == to_uppercase(text)
             best_score ==
                 Max({0} \cup {score(languages[l][1], languages[l][2], text, upper) :
                                  l \in 1..Len(languages)})
             total_score == best_score * 2 + structural_score
         IN  IF total_score < 3 THEN None
             ELSE Some(DetectionResult("code", "none"))

detect_code_before_path(text) ==
    LET trimmed == trim(text) IN
    IF detect_jwt(trimmed) # None THEN detect_jwt(trimmed)[1]
    ELSE IF detect_url(trimmed) # None THEN detect_url(trimmed)[1]
    ELSE IF detect_email(trimmed) # None THEN detect_email(trimmed)[1]
    ELSE IF detect_color(trimmed) # None THEN detect_color(trimmed)[1]
    ELSE IF detect_json(trimmed) # None THEN detect_json(trimmed)[1]
    ELSE IF detect_code(trimmed) # None THEN detect_code(trimmed)[1]
    ELSE IF detect_path(trimmed) # None THEN detect_path(trimmed)[1]
    ELSE IF detect_timestamp(trimmed) # None THEN detect_timestamp(trimmed)[1]
    ELSE DetectionResult("text", "none")

\* the detectors in the order detect tries them
detect(text) ==
    LET trimmed   == trim(text)
        jwt       == detect_jwt(trimmed)
        url       == detect_url(trimmed)
        email     == detect_email(trimmed)
        color     == detect_color(trimmed)
        json      == detect_json(trimmed)
        path      == detect_path(trimmed)
        timestamp == detect_timestamp(trimmed)
        code      == detect_code(trimmed)
    IN  IF jwt # None THEN jwt[1]
        ELSE IF url # None THEN url[1]
        ELSE IF email # None THEN email[1]
        ELSE IF color # None THEN color[1]
        ELSE IF json # None THEN json[1]
        ELSE IF path # None THEN path[1]
        ELSE IF timestamp # None THEN timestamp[1]
        ELSE IF code # None THEN code[1]
        ELSE DetectionResult("text", "none")

(***************************************************************************)
(* The texts given to detect: up to MaxPieces pieces written one after     *)
(* another, and the integer literals around the ends of the two timestamp  *)
(* ranges.                                                                 *)
(***************************************************************************)
MaxPieces == 2

Pieces ==
    {Chars("eyJthenthenthen.fi.done"), Chars("https://a.io/"), Chars("http://"),
     Chars("me@a.io"), Chars("#fff"), Chars("fff"), Chars("rgb(1,2,3)"),
     Chars("{\"fn let mut \": [1]}"), Chars("// fn let mut pub use x"),
     Chars("C:\\a"), Chars("1708123456"), Chars("000"), <<" ">>, <<"lf">>}

RECURSIVE PieceTexts(_)
PieceTexts(n) ==
    IF n = 0 THEN {<<>>}
    ELSE PieceTexts(n - 1) \cup {t \o p : t \in PieceTexts(n - 1), p \in Pieces}

Literals ==
    {Chars(sign \o seconds \o suffix) :
        sign \in {"", "+", "-"},
        seconds \in {"978307199", "978307200", "2208988799", "2208988800", "2208988801"},
        suffix \in {"", "000", "999"}}
    \cup {Chars("0"), Chars("9223372036854775807"), Chars("9223372036854775808")}

Texts == PieceTexts(MaxPieces) \cup Literals

\* check_clipboard classifies the text it read
IntelligenceService_detect ==
    /\ call.fn = "none"
    /\ \E text \in Texts :
         call' = [fn |-> "detect", arg |-> text, result |-> detect(text)]
    /\ UNCHANGED <<monitorKind, pasteboard, changeCount, monitor, pc, cur,
                   clips, embeddings, files, embTasks, model, cmd, now, nextId,
                   loopAlive, lastErr, lastCheck, primed, origin, ioFault,
                   observed, search,
                   startup, loads, modelLock, toggles, svc, hasher>>

SpecDetect == Init /\ [][IntelligenceService_detect]_vars

(***************************************************************************)
(* SpecIntegrity: the capture loop beside a second process of the program  *)
(* on the same database file (main.rs installs no single-instance guard).  *)
(* With one process the capture loop is the only inserter and its insert   *)
(* always follows a lookup that found nothing.                             *)
(***************************************************************************)
\* the other process's tick stores its capture of the text on the pasteboard
OtherInstanceInsert ==
    /\ pasteboard # None
    /\ nextId <= MaxIds
    /\ ~ioFault
    /\ LET c == pasteboard[1]
           b == BuildClip(c, compute_content_hash(c), nextId, now, 0)
       IN /\ NumWrites(c) = 0
          /\ ~IntegrityViolation(clips, b.clip)
          /\ clips' = insert(clips, b.clip)
    /\ nextId' = nextId + 1
    /\ UNCHANGED <<monitorKind, pasteboard, changeCount, monitor, pc, cur,
                   embeddings, files, embTasks, model, cmd, now, loopAlive,
                   lastErr, lastCheck, primed, origin, ioFault, observed,
                   search, call,
                   startup, loads, modelLock, toggles, svc, hasher>>

NextIntegrity == Capture(TextContents) \/ OtherInstanceInsert \/ AdvanceClock

SpecIntegrity == Init /\ [][NextIntegrity]_vars

(***************************************************************************)
(* SpecMonitor: a monitor over a provider whose content is set directly,   *)
(* as the tests of clipboard_monitor.rs do with MockClipboardProvider      *)
(***************************************************************************)
MonContents ==
    { Text("a"), Text("b"),
      Html("<b>a</b>", "a"), Html("<i>a</i>", "a"),
      Rtf("{\\b a}", "a"), Rtf("{\\b a}", "b"),
      Image("png1", "png"), Image("png1meta", "png"),
      Files(<<"f1", "f2">>),
      Office(Some("ole1"), None, None, Some("png2"), "") }

\* provider.set_content(o): some application replaces the pasteboard
MockSetContent(o) ==
    /\ CanWrite
    /\ pasteboard' = o
    /\ changeCount' = Bumped
    /\ primed' = FALSE
    /\ origin' = IF origin = "notified" THEN "notified" ELSE "foreign"
    /\ UNCHANGED <<monitorKind, monitor, pc, cur, clips, embeddings, files,
                   embTasks, model, cmd, now, nextId, loopAlive, lastErr,
                   lastCheck, ioFault, observed,
                   search, call,
                   startup, loads, modelLock, toggles, svc, hasher>>

\* monitor.notify_wrote(&c)
MonitorNotifyWrote(c) ==
    /\ monitor' = notify_wrote(monitorKind, monitor, c, get_change_count)
    /\ primed' = (pasteboard = Some(c))
    /\ origin' = "notified"
    /\ observed' = [observed EXCEPT !.seenHash = Some(compute_content_hash(c))]
    /\ UNCHANGED <<monitorKind, pasteboard, changeCount, pc, cur, clips,
                   embeddings, files, embTasks, model, cmd, now, nextId,
                   loopAlive, lastErr, lastCheck, ioFault,
                   search, call,
                   startup, loads, modelLock, toggles, svc, hasher>>

\* let result = monitor.check(); the provider's read may fail
MonitorCheck ==
    \E ok \in BOOLEAN :
      LET rd == [ok |-> ok, val |-> pasteboard]
          r == check(monitorKind, monitor, get_change_count, rd)
      IN /\ monitor' = r.mon
         /\ lastCheck' = [result |-> r.result, primed |-> primed,
                          origin |-> origin, time |-> 0, emitted |-> <<>>]
         /\ primed' = FALSE
         /\ origin' = IF r.result = "Err" THEN origin ELSE "observed"
         /\ observed' = IF r.result = "Err" THEN observed
                        ELSE [prev |-> observed.last, last |-> pasteboard,
                              seenHash |-> IF r.result = "Changed" THEN r.hash
                                           ELSE observed.seenHash,
                              hash |-> r.hash]
         /\ UNCHANGED <<monitorKind, pasteboard, changeCount, pc, cur, clips,
                        embeddings, files, embTasks, model, cmd, now, nextId,
                        loopAlive, lastErr, ioFault,
                   search, call,
                   startup, loads, modelLock, toggles, svc, hasher>>

NextMonitor ==
    \/ \E o \in {None} \cup {Some(c) : c \in MonContents} : MockSetContent(o)
    \/ \E c \in MonContents : MonitorNotifyWrote(c)
    \/ MonitorCheck

SpecMonitor == Init /\ [][NextMonitor]_vars

(***************************************************************************)
(* Embedding vectors as stored bytes (services/semantic.rs).  An f32 is    *)
(* its 32 bits: the sign bit, the 8 exponent bits and the 23 fraction      *)
(* bits.                                                                   *)
(***************************************************************************)
MaxDim == 2

F32 == [sign : {0, 1}, exponent : {0, 127, 255}, fraction : {0, 1, 4194305, 8388607}]

F32Vectors == UNION {[1..n -> F32] : n \in 0..MaxDim}

\* f32::to_be_bytes
to_be_bytes(f) ==
    <<f.sign * 128 + f.exponent \div 2,
      (f.exponent % 2) * 128 + f.fraction \div 65536,
      (f.fraction \div 256) % 256,
      f.fraction % 256>>

\* f32::to_le_bytes: the least significant byte first
to_le_bytes(f) ==
    <<f.fraction % 256,
      (f.fraction \div 256) % 256,
      (f.exponent % 2) * 128 + f.fraction \div 65536,
      f.sign * 128 + f.exponent \div 2>>

\* f32::from_le_bytes
from_le_bytes(chunk) ==
    [sign     |-> chunk[4] \div 128,
     exponent |-> (chunk[4] % 128) * 2 + chunk[3] \div 128,
     fraction |-> (chunk[3] % 128) * 65536 + chunk[2] * 256 + chunk[1]]

RECURSIVE vector_to_bytes(_)
vector_to_bytes(vec) ==
    IF vec = <<>> THEN <<>>
    ELSE to_le_bytes(Head(vec)) \o vector_to_bytes(Tail(vec))

\* chunks_exact(4) leaves out a rest of fewer than four bytes
RECURSIVE bytes_to_vector(_)
bytes_to_vector(bytes) ==
    IF Len(bytes) < 4 THEN <<>>
    ELSE <<from_le_bytes(SubSeq(bytes, 1, 4))>>
         \o bytes_to_vector(SubSeq(bytes, 5, Len(bytes)))

\* create_embedding stores vector_to_bytes(vector)
StoreVector ==
    /\ call.fn = "none"
    /\ \E vec \in F32Vectors :
         call' = [fn |-> "vector_to_bytes", arg |-> vec, result |-> vector_to_bytes(vec)]
    /\ UNCHANGED <<monitorKind, pasteboard, changeCount, monitor, pc, cur,
                   clips, embeddings, files, embTasks, model, cmd, now, nextId,
                   loopAlive, lastErr, lastCheck, primed, origin, ioFault,
                   observed, search,
                   startup, loads, modelLock, toggles, svc, hasher>>

\* get_embeddings_with_filters reads the stored bytes back with bytes_to_vector
LoadVector ==
    /\ call.fn = "vector_to_bytes"
    /\ call' = [fn |-> "bytes_to_vector", arg |-> call.arg,
                result |-> [bytes |-> call.result, vector |-> bytes_to_vector(call.result)]]
    /\ UNCHANGED <<monitorKind, pasteboard, changeCount, monitor, pc, cur,
                   clips, embeddings, files, embTasks, model, cmd, now, nextId,
                   loopAlive, lastErr, lastCheck, primed, origin, ioFault,
                   observed, search,
                   startup, loads, modelLock, toggles, svc, hasher>>

SpecVector == Init /\ [][StoreVector \/ LoadVector]_vars

(***************************************************************************)
(* The setup task of main (main.rs): settings.json, the first-launch save *)
(* and the check of the semantic model against the model cache.           *)
(***************************************************************************)
KnownModels == <<"all-MiniLM-L6-v2", "paraphrase-multilingual-MiniLM-L12-v2">>

\* what settings.semantic_model may hold: the two known ids and another string
SettingsModels == {KnownModels[1], KnownModels[2], "bge-small-en-v1.5"}

\* settings.json: absent, or any settings
SettingsFiles ==
    {None} \cup {Some(AppSettings(w, e, m)) : w \in BOOLEAN, e \in BOOLEAN, m \in SettingsModels}

\* the directories that .fastembed_cache may hold
CacheDirs ==
    {"fast-all-MiniLM-L6-v2", "fast-paraphrase-multilingual-MiniLM-L12-v2", "tmp"}

\* SemanticService::get_downloaded_models: a directory stands for the first
\* known id its name contains
get_downloaded_models(cache) ==
    {KnownModels[1] : d \in {d \in cache : contains(Chars(d), Chars(KnownModels[1]))}}
    \cup {KnownModels[2] : d \in {d \in cache :
                                     /\ ~contains(Chars(d), Chars(KnownModels[1]))
                                     /\ contains(Chars(d), Chars(KnownModels[2]))}}

\* SettingsRepository::load: defaults when the file does not exist
load(file) == IF file = None THEN AppSettings_default ELSE file[1]

\* SettingsRepository::save: the temporary file is renamed over settings.json,
\* or the error is returned and settings.json is as it was
save(file, settings, ok) == IF ok THEN Some(settings) ELSE file

self_heal_keeps(settings) == settings

\* settings.semantic_search_enabled = false
self_heal(settings) == [settings EXCEPT !.semantic_search_enabled = FALSE]

\* let mut settings = load().unwrap_or_default(); the first-launch save
StartupLoad ==
    /\ startup.pc = "load"
    /\ LET loaded   == IF ioFault THEN AppSettings_default ELSE load(startup.file)
           settings == [loaded EXCEPT !.has_seen_welcome = TRUE]
       IN  startup' = [startup EXCEPT
                          !.pc = "check",
                          !.loaded = Some(loaded),
                          !.settings = settings,
                          !.file = IF loaded.has_seen_welcome THEN @
                                   ELSE save(@, settings, ~ioFault)]
    /\ UNCHANGED <<monitorKind, pasteboard, changeCount, monitor, pc, cur,
                   clips, embeddings, files, embTasks, model, cmd, now,
                   nextId, loopAlive, lastErr, lastCheck, primed, origin,
                   ioFault, observed, search, call, loads, modelLock, toggles, svc,
                   hasher>>

\* if settings.semantic_search_enabled: load the model when it is among the
\* downloaded ones, else clear the flag and save; the result of save is dropped
StartupSelfHeal ==
    /\ startup.pc = "check"
    /\ IF ~startup.settings.semantic_search_enabled
       THEN /\ startup' = [startup EXCEPT !.pc = "done"]
            /\ loads' = loads
       ELSE IF startup.settings.semantic_model \in get_downloaded_models(startup.cache)
       THEN /\ startup' = [startup EXCEPT !.pc = "done"]
            /\ loads' = [loads EXCEPT !["startup"] =
                            [pc |-> "try_new", model_name |-> startup.settings.semantic_model,
                             result |-> "none"]]
       ELSE /\ startup' = [startup EXCEPT
                              !.pc = "done",
                              !.settings = self_heal(@),
                              !.file = save(@, self_heal(startup.settings), ~ioFault),
                              !.save = IF ioFault THEN "failed" ELSE "ok"]
            /\ loads' = loads
    /\ UNCHANGED <<monitorKind, pasteboard, changeCount, monitor, pc, cur,
                   clips, embeddings, files, embTasks, model, cmd, now,
                   nextId, loopAlive, lastErr, lastCheck, primed, origin,
                   ioFault, observed, search, call, modelLock, toggles, svc,
                   hasher>>

(***************************************************************************)
(* SemanticService::init_model in its steps: TextEmbedding::try_new runs  *)
(* first, then the write lock of model is taken and the model stored,     *)
(* then the write lock of loaded_model_name is taken and the name stored; *)
(* both locks are released when the closure returns.                      *)
(***************************************************************************)
\* the model that init_model loads for a name
model_enum(model_name) ==
    IF model_name = KnownModels[2] THEN KnownModels[2] ELSE KnownModels[1]

try_new_lock_taken(lock, caller) == caller

\* the lock of model while TextEmbedding::try_new runs: not taken
try_new_lock(lock, caller) == lock

on_error_unloads(m) == [model |-> None, loaded_model_name |-> None]

\* model and loaded_model_name after try_new failed: the closure has returned
\* before it reached them
on_error(m) == m

\* init_model is entered by caller c for model_name
InitModelBegins(c, model_name) ==
    /\ loads' = [loads EXCEPT ![c] = [pc |-> "try_new", model_name |-> model_name,
                                      result |-> "none"]]
    /\ modelLock' = try_new_lock(modelLock, c)

\* TextEmbedding::try_new(options), which downloads the model if it has to
InitModelTryNew(c) ==
    /\ loads[c].pc = "try_new"
    /\ \E ok \in BOOLEAN :
         IF ok
         THEN /\ loads' = [loads EXCEPT ![c].pc = "store_model"]
              /\ model' = model
         ELSE /\ loads' = [loads EXCEPT ![c].pc = "returned", ![c].result = "Err"]
              /\ model' = on_error(model)
    /\ UNCHANGED <<monitorKind, pasteboard, changeCount, monitor, pc, cur,
                   clips, embeddings, files, embTasks, cmd, now, nextId,
                   loopAlive, lastErr, lastCheck, primed, origin, ioFault,
                   observed, search, call, startup, modelLock, toggles, svc,
                   hasher>>

\* let mut lock = model_arc.write().unwrap(); *lock = Some(model)
InitModelStoreModel(c) ==
    /\ loads[c].pc = "store_model"
    /\ modelLock = "free"
    /\ modelLock' = c
    /\ model' = [model EXCEPT !.model = Some(model_enum(loads[c].model_name))]
    /\ loads' = [loads EXCEPT ![c].pc = "store_name"]
    /\ UNCHANGED <<monitorKind, pasteboard, changeCount, monitor, pc, cur,
                   clips, embeddings, files, embTasks, cmd, now, nextId,
                   loopAlive, lastErr, lastCheck, primed, origin, ioFault,
                   observed, search, call, startup,
                   toggles, svc, hasher>>

\* *name_lock = Some(model_name); Ok(()), which drops both guards
InitModelStoreName(c) ==
    /\ loads[c].pc = "store_name"
    /\ modelLock = c
    /\ modelLock' = "free"
    /\ model' = [model EXCEPT !.loaded_model_name = Some(loads[c].model_name)]
    /\ loads' = [loads EXCEPT ![c].pc = "returned", ![c].result = "Ok"]
    /\ UNCHANGED <<monitorKind, pasteboard, changeCount, monitor, pc, cur,
                   clips, embeddings, files, embTasks, cmd, now, nextId,
                   loopAlive, lastErr, lastCheck, primed, origin, ioFault,
                   observed, search, call, startup,
                   toggles, svc, hasher>>

InitModelSteps ==
    \/ \E c \in Callers : InitModelTryNew(c)
    \/ \E c \in Callers : InitModelStoreModel(c)
    \/ \E c \in Callers : InitModelStoreName(c)

\* init_semantic_search: settings_repository.load()?, then init_model
init_semantic_search ==
    /\ startup.pc = "done"
    /\ loads["init_semantic_search"].pc \in {"idle", "returned"}
    /\ IF ioFault
       THEN /\ loads' = [loads EXCEPT !["init_semantic_search"] =
                            [pc |-> "returned", model_name |-> "", result |-> "Err"]]
            /\ modelLock' = modelLock
       ELSE InitModelBegins("init_semantic_search", load(startup.file).semantic_model)
    /\ UNCHANGED <<monitorKind, pasteboard, changeCount, monitor, pc, cur,
                   clips, embeddings, files, embTasks, model, cmd, now,
                   nextId, loopAlive, lastErr, lastCheck, primed, origin,
                   ioFault, observed, search, call, startup,
                   toggles, svc, hasher>>

\* change_semantic_model: unload_model(), then init_model(model_name)
change_semantic_model ==
    /\ startup.pc = "done"
    /\ loads["change_semantic_model"].pc \in {"idle", "returned"}
    /\ modelLock = "free"
    /\ model' = [model |-> None, loaded_model_name |-> None]
    /\ \E model_name \in ModelNames : InitModelBegins("change_semantic_model", model_name)
    /\ UNCHANGED <<monitorKind, pasteboard, changeCount, monitor, pc, cur,
                   clips, embeddings, files, embTasks, cmd, now, nextId,
                   loopAlive, lastErr, lastCheck, primed, origin, ioFault,
                   observed, search, call, startup,
                   toggles, svc, hasher>>

\* get_semantic_search_status: is_ready() takes the read lock of model
get_semantic_search_status ==
    /\ startup.pc = "done"
    /\ modelLock = "free"
    /\ call' = [fn |-> "is_ready", arg |-> \E c \in Callers : loads[c].pc = "try_new",
                result |-> is_ready]
    /\ UNCHANGED <<monitorKind, pasteboard, changeCount, monitor, pc, cur,
                   clips, embeddings, files, embTasks, model, cmd, now,
                   nextId, loopAlive, lastErr, lastCheck, primed, origin,
                   ioFault, observed, search, startup, loads, modelLock, toggles, svc,
                   hasher>>

InitStartup ==
    /\ monitorKind \in {"Polling", "MacOS"}
    /\ pasteboard = None
    /\ changeCount = 1
    /\ monitor = NewMonitor
    /\ pc = "sleep"
    /\ cur = NoCur
    /\ clips = {}
    /\ embeddings = {}
    /\ files = {}
    /\ embTasks = {}
    /\ model = [model |-> None, loaded_model_name |-> None]
    /\ cmd = Idle
    /\ now = 0
    /\ nextId = 1
    /\ loopAlive = TRUE
    /\ lastErr = "none"
    /\ lastCheck = NoCheck
    /\ primed = FALSE
    /\ origin = "none"
    /\ ioFault = FALSE
    /\ observed = NoObserved
    /\ search = NoSearch
    /\ call = NoCall
    /\ \E file \in SettingsFiles, cache \in SUBSET CacheDirs :
         startup = [NoStartup EXCEPT !.pc = "load", !.file = file, !.cache = cache]
    /\ loads = NoLoads
    /\ modelLock = "free"
    /\ toggles = NoToggles
    /\ svc = NoSvc
    /\ hasher = NoDrawn

NextStartup ==
    \/ StartupLoad
    \/ StartupSelfHeal
    \/ InitModelSteps
    \/ FaultBegins
    \/ FaultClears

SpecStartup == InitStartup /\ [][NextStartup]_vars

(***************************************************************************)
(* SpecLoad: the capture loop and its embedding tasks beside the commands  *)
(* that load the model and ask whether it is loaded.                       *)
(***************************************************************************)
NextLoad ==
    \/ Capture({Text("a")})
    \/ \E t \in embTasks : EmbedTaskEmbed(t)
    \/ \E t \in embTasks : EmbedTaskStore(t)
    \/ init_semantic_search
    \/ change_semantic_model
    \/ InitModelSteps
    \/ get_semantic_search_status
    \/ FaultBegins
    \/ FaultClears

SpecLoad == Init /\ [][NextLoad]_vars

(***************************************************************************)
(* toggle_pin and toggle_favorite                                          *)
(***************************************************************************)
\* the values of column `column` in the rows with this id: query_scalar's rows
select_flag(rows, id, column) == {r[column] : r \in {q \in rows : q.id = id}}

\* let new_value = if current == 1 { 0 } else { 1 }
new_value(current) == IF current = 1 THEN 0 ELSE 1

\* UPDATE clips SET <column> = ? WHERE id = ?
update_flag(rows, id, column, current) ==
    {IF r.id = id
       THEN [r EXCEPT ![column] = new_value(current)]
       ELSE r : r \in rows}

\* the command is invoked and runs to its first await's completion:
\* SELECT <column> FROM clips WHERE id = ?, fetch_one(..).await?
ToggleSelect(i, id, column) ==
    /\ toggles.calls[i].pc \in {"idle", "returned"}
    /\ IF ioFault \/ select_flag(clips, id, column) = {}
         THEN toggles' = [toggles EXCEPT !.calls[i] =
                  [pc |-> "returned", column |-> column, id |-> id,
                   current |-> 0, result |-> "Err"]]
         ELSE \E current \in select_flag(clips, id, column) :
                toggles' = [toggles EXCEPT !.calls[i] =
                  [pc |-> "update", column |-> column, id |-> id,
                   current |-> current, result |-> "none"]]
    /\ UNCHANGED <<monitorKind, pasteboard, changeCount, monitor, pc, cur,
                   clips, embeddings, files, embTasks, model, cmd, now,
                   nextId, loopAlive, lastErr, lastCheck, primed, origin,
                   ioFault, observed, search, call, startup, loads,
                   modelLock, svc, hasher>>

\* commands::toggle_pin -> ClipRepository::toggle_pin
toggle_pin == \E i \in Invocations, id \in 1 .. MaxIds : ToggleSelect(i, id, "is_pinned")

\* commands::toggle_favorite -> ClipRepository::toggle_favorite
toggle_favorite ==
    \E i \in Invocations, id \in 1 .. MaxIds : ToggleSelect(i, id, "is_favorite")

\* the UPDATE, execute(..).await?, and Ok(new_value == 1)
ToggleUpdate ==
    \E i \in Invocations :
      LET c == toggles.calls[i] IN
      /\ c.pc = "update"
      /\ IF ioFault
           THEN /\ toggles' = [toggles EXCEPT !.calls[i].pc = "returned",
                                              !.calls[i].result = "Err"]
                /\ UNCHANGED clips
           ELSE /\ clips' = update_flag(clips, c.id, c.column, c.current)
                /\ toggles' =
                     [toggles EXCEPT
                        !.calls[i].pc = "returned",
                        !.calls[i].result =
                            IF new_value(c.current) = 1
                              THEN "Ok(true)" ELSE "Ok(false)",
                        !.returned[c.id][c.column] = (@ + 1) % 2]
      /\ UNCHANGED <<monitorKind, pasteboard, changeCount, monitor, pc, cur,
                     embeddings, files, embTasks, model, cmd, now, nextId,
                     loopAlive, lastErr, lastCheck, primed, origin, ioFault,
                     observed, search, call, startup, loads, modelLock, svc,
                     hasher>>

NextToggle ==
    \/ Capture({Text("a")})
    \/ toggle_pin
    \/ toggle_favorite
    \/ ToggleUpdate
    \/ FaultBegins
    \/ FaultClears

SpecToggle == Init /\ [][NextToggle]_vars

\* the restore commands with a running clock and failing writes
NextRestoreClock ==
    \/ Capture({Text("a")})
    \/ Restores
    \/ AdvanceClock
    \/ FaultBegins
    \/ FaultClears

SpecRestoreClock == Init /\ [][NextRestoreClock]_vars

\* embeddings while the user switches between the two known models
NextLabel ==
    \/ Capture({Text("a")})
    \/ \E t \in embTasks : EmbedTaskEmbed(t)
    \/ \E t \in embTasks : EmbedTaskStore(t)
    \/ \E name \in Range(KnownModels) : init_model(name)
    \/ generate_embedding
    \/ GenerateEmbed
    \/ GenerateStore

SpecLabel == Init /\ [][NextLabel]_vars

\* copies of different kinds whose canonical strings coincide, and one whose
\* does not
KindContents ==
    { Text("a"),
      Office(Some("ole1"), None, None, None, "a"),
      Office(Some("ole1"), None, None, None, ""),
      Text("f1|f2"),
      Files(<<"f1", "f2">>) }

NextKinds == Capture(KindContents)

SpecKinds == Init /\ [][NextKinds]_vars

(***************************************************************************)
(* Incremental refresh: a window that polls get_clips_after_timestamp      *)
(***************************************************************************)
\* SELECT ... FROM clips WHERE updated_at > ? (the ORDER BY is not modelled:
\* the caller below keeps the rows as a set)
get_after_timestamp(rows, timestamp) ==
    {r \in rows : r.updated_at > timestamp}

\* the largest updated_at the caller has seen so far; before its first call it
\* asks for everything
LargestSeen ==
    IF call.fn # "get_clips_after_timestamp" THEN -1
    ELSE IF call.seen = {} THEN call.arg
    ELSE CHOOSE u \in {p[2] : p \in call.seen} :
             \A p \in call.seen : p[2] <= u

\* the command, called with t = LargestSeen; seen is history: the (id,
\* updated_at) pairs of every row any call has returned to this caller
get_clips_after_timestamp ==
    LET t == LargestSeen
        rows == get_after_timestamp(clips, t)
        before == IF call.fn = "get_clips_after_timestamp" THEN call.seen ELSE {}
    IN /\ call' = [fn |-> "get_clips_after_timestamp", arg |-> t,
                   result |-> {r.id : r \in rows},
                   seen |-> before \cup {<<r.id, r.updated_at>> : r \in rows}]
       /\ UNCHANGED <<monitorKind, pasteboard, changeCount, monitor, pc, cur,
                      clips, embeddings, files, embTasks, model, cmd, now,
                      nextId, loopAlive, lastErr, lastCheck, primed, origin,
                      ioFault, observed, search, startup, loads, modelLock,
                      toggles, svc, hasher>>

NextRefresh ==
    \/ Capture({Text("a"), Text("b")})
    \/ AdvanceClock
    \/ get_clips_after_timestamp

SpecRefresh == Init /\ [][NextRefresh]_vars

\* the window keeps polling
SpecRefreshFair == SpecRefresh /\ WF_vars(get_clips_after_timestamp)

(***************************************************************************)
(* The log line of check_clipboard over hash strings of every length: the  *)
(* u64 values of the inputs are drawn at the start.                        *)
(***************************************************************************)
LogContents == {Text("a"), Text("b")}

HashInputs == {compute_content_hash(c) : c \in LogContents}

\* u64 values printed with 1, 1, 7, 8 and 16 digits
U64Samples == {<<0, 0, 0, 0>>, <<0, 0, 0, 10>>, <<0, 0, 4095, 65535>>,
               <<0, 0, 4096, 0>>, LongValue}

InitHashLog ==
    /\ monitorKind \in {"Polling", "MacOS"}
    /\ pasteboard = None
    /\ changeCount = 1
    /\ monitor = NewMonitor
    /\ pc = "sleep"
    /\ cur = NoCur
    /\ clips = {}
    /\ embeddings = {}
    /\ files = {}
    /\ embTasks = {}
    /\ model = [model |-> None, loaded_model_name |-> None]
    /\ cmd = Idle
    /\ now = 0
    /\ nextId = 1
    /\ loopAlive = TRUE
    /\ lastErr = "none"
    /\ lastCheck = NoCheck
    /\ primed = FALSE
    /\ origin = "none"
    /\ ioFault = FALSE
    /\ observed = NoObserved
    /\ search = NoSearch
    /\ call = NoCall
    /\ startup = NoStartup
    /\ loads = NoLoads
    /\ modelLock = "free"
    /\ toggles = NoToggles
    /\ svc = NoSvc
    /\ hasher \in [HashInputs -> U64Samples]

NextHashLog == Capture(LogContents)

SpecHashLog == InitHashLog /\ [][NextHashLog]_vars

(***************************************************************************)
(* SemanticService and its two locks (services/semantic.rs): model and     *)
(* loaded_model_name are RwLocks.  Each operation is the sequence of its   *)
(* lock operations and of the work it does between them; a guard is held   *)
(* from its acquisition to the next drop or return.                        *)
(***************************************************************************)
Program_unload_name_first(t) ==
    CASE t = "init_model" -> <<"try_new", "model.write", "name.write", "return">>
      [] t = "unload_model" -> <<"name.write", "model.write", "return">>
      [] t = "embed" -> <<"model.write", "model.embed", "return">>
      [] t = "is_ready" -> <<"model.read", "return">>
      [] t = "get_model_info" -> <<"name.read", "return">>
      [] t = "delete_model" ->
            <<"model.read", "drop", "name.write", "model.write", "drop",
              "remove_dir_all", "return">>

Program(t) ==
    CASE t = "init_model" -> <<"try_new", "model.write", "name.write", "return">>
      [] t = "unload_model" -> <<"model.write", "name.write", "return">>
      [] t = "embed" -> <<"model.write", "model.embed", "return">>
      [] t = "is_ready" -> <<"model.read", "return">>
      [] t = "get_model_info" -> <<"name.read", "return">>
      [] t = "delete_model" ->
            <<"model.read", "drop", "model.write", "name.write", "drop",
              "remove_dir_all", "return">>

LockOps == {"model.read", "model.write", "name.read", "name.write"}

\* the guards thread t holds: those it took since its last drop
Held(t) ==
    LET done == svc.pc[t] - 1
        drops == {j \in 1 .. done : Program(t)[j] = "drop"}
        from == IF drops = {} THEN 0
                ELSE CHOOSE j \in drops : \A k \in drops : k <= j
    IN {Program(t)[j] : j \in {k \in 1 .. done : k > from}} \cap LockOps

\* RwLock: a write guard excludes every other guard, a read guard the write guards
Available(op) ==
    CASE op = "model.write" ->
            \A t \in Ops : Held(t) \cap {"model.read", "model.write"} = {}
      [] op = "model.read" -> \A t \in Ops : "model.write" \notin Held(t)
      [] op = "name.write" ->
            \A t \in Ops : Held(t) \cap {"name.read", "name.write"} = {}
      [] op = "name.read" -> \A t \in Ops : "name.write" \notin Held(t)
      [] OTHER -> TRUE

\* what the operation writes once it has the guard
Stores(t, op, m) ==
    IF t = "init_model" /\ op = "model.write"
      THEN [m EXCEPT !.model = Some(model_enum(svc.arg[t]))]
    ELSE IF t = "init_model" /\ op = "name.write"
      THEN [m EXCEPT !.loaded_model_name = Some(svc.arg[t])]
    ELSE IF t \in {"unload_model", "delete_model"} /\ op = "model.write"
      THEN [m EXCEPT !.model = None]
    ELSE IF t \in {"unload_model", "delete_model"} /\ op = "name.write"
      THEN [m EXCEPT !.loaded_model_name = None]
    ELSE m

\* delete_model: remove_dir_all of every directory whose name contains model_name
remove_dirs(cache, model_name) ==
    {d \in cache : ~contains(Chars(d), Chars(model_name))}

\* the directory fastembed keeps a model in
cache_dir_of(model_name) == "fast-" \o model_enum(model_name)

\* a command calls the operation, with a model_name of S if it takes one
SvcCall(t, S) ==
    /\ svc.pc[t] = 0
    /\ \E model_name \in IF t \in {"init_model", "delete_model"} THEN S ELSE {""} :
         svc' = [svc EXCEPT !.pc[t] = 1, !.arg[t] = model_name]
    /\ UNCHANGED <<monitorKind, pasteboard, changeCount, monitor, pc, cur,
                   clips, embeddings, files, embTasks, model, cmd, now,
                   nextId, loopAlive, lastErr, lastCheck, primed, origin,
                   ioFault, observed, search, call, startup, loads,
                   modelLock, toggles, hasher>>

\* the operation executes its next instruction
SvcStep(t) ==
    /\ svc.pc[t] > 0
    /\ LET op == Program(t)[svc.pc[t]] IN
       /\ Available(op)
       /\ model' = Stores(t, op, model)
       /\ \E ok \in IF op \in {"try_new", "remove_dir_all"} THEN BOOLEAN ELSE {TRUE} :
            /\ svc' = IF op = "return" \/ ~ok
                        THEN [svc EXCEPT !.pc[t] = 0, !.arg[t] = ""]
                        ELSE [svc EXCEPT !.pc[t] = @ + 1]
            /\ startup' =
                 IF op = "try_new" /\ ok
                   THEN [startup EXCEPT !.cache = @ \cup {cache_dir_of(svc.arg[t])}]
                 ELSE IF op = "remove_dir_all" /\ ok
                   THEN [startup EXCEPT !.cache = remove_dirs(@, svc.arg[t])]
                 ELSE startup
    /\ UNCHANGED <<monitorKind, pasteboard, changeCount, monitor, pc, cur,
                   clips, embeddings, files, embTasks, cmd, now, nextId,
                   loopAlive, lastErr, lastCheck, primed, origin, ioFault,
                   observed, search, call, loads, modelLock, toggles, hasher>>

NextService ==
    \/ \E t \in Ops : SvcCall(t, Range(KnownModels))
    \/ \E t \in Ops : SvcStep(t)

SpecService == Init /\ [][NextService]_vars

\* the same with one model name, for the liveness of the lock protocol
NextLocks ==
    \/ \E t \in Ops : SvcCall(t, ModelNames)
    \/ \E t \in Ops : SvcStep(t)

\* every operation keeps running, and a lock that becomes free again and
\* again is eventually granted to the operation that waits for it
SpecServiceFair ==
    Init /\ [][NextLocks]_vars /\ \A t \in Ops : SF_vars(SvcStep(t))

(***************************************************************************)
(* Properties                                                              *)
(***************************************************************************)

\* C1: restore priming.  For both monitors and every content c: when
\* notify_wrote(c) is called while the pasteboard holds the c just written and
\* nothing replaces the pasteboard before the next check(), that check() does
\* not report Changed; it returns Unchanged whenever the provider's read
\* succeeds.
C1_RestorePriming ==
    (lastCheck.primed /\ lastCheck.result # "Err") => lastCheck.result = "Unchanged"

C1_Witness ==
    /\ lastCheck.primed
    /\ lastCheck.result = "Unchanged"
    /\ pasteboard # None
    /\ pasteboard[1].kind = "Office"
    /\ monitorKind = "Polling"

\* C2: a self-write is never captured.  No check() of the capture loop runs
\* between set_text's write of the pasteboard and its notify_wrote and reports
\* Changed, and no row holds a text that only copy_to_clipboard / paste_clip
\* ever put on the pasteboard ("b" is in CmdTexts and in no foreign content).
C2_SelfWriteNeverCaptured ==
    /\ lastCheck.origin = "self_unprimed" => lastCheck.result # "Changed"
    /\ \A r \in clips : r.content_text # "b"

\* C3: content_hash is unique across the rows of clips; the capture loop
\* reaches its insert only when no row has the hash, so insert never fails
\* with Integrity and a capture of a known hash touches the row.
C3_UniqueHash ==
    /\ \A r, q \in clips : r.content_hash = q.content_hash => r = q
    /\ pc = "insert" => WithHash(clips, cur.hash) = {}
    /\ lastErr # "integrity"

C3_Witness ==
    /\ pc = "refetch"
    /\ IsSome(cur.existing)
    /\ \E r \in clips : /\ r.id = cur.existing[1]
                        /\ r.content_type = "text"
                        /\ cur.clip[1].content_type = "html"
                        /\ r.id # cur.clip[1].id

\* C4 as stated: after a tick that follows a re-copy of content that has a row
\* (same bytes set again, the pasteboard already observed by the monitor) there
\* is exactly one row for it and its updated_at is not older than that tick.
C4_RecopyAlwaysHoists ==
    (/\ lastCheck.origin = "recopy"
     /\ origin = "observed"
     /\ pc = "sleep"
     /\ lastErr = "none"
     /\ pasteboard # None)
    => LET rows == WithHash(clips, compute_content_hash(pasteboard[1])) IN
       /\ Cardinality(rows) <= 1
       /\ \A r \in rows : r.updated_at >= lastCheck.time

\* C4, amended: a re-copy of the same bytes is re-captured only by the
\* MacOSMonitor (the change counter moved); PollingMonitor answers Unchanged
\* and the row keeps its updated_at.  Whenever the capture loop dedupes, the
\* touch keeps every row, its id, hash and created_at, and sets updated_at of
\* the found row to the current second; the row count does not change.
C4_DedupeHoist ==
    /\ [](  (/\ lastCheck.origin = "recopy"
             /\ origin = "observed"
             /\ pc = "sleep"
             /\ lastErr = "none"
             /\ pasteboard # None)
          => LET rows == WithHash(clips, compute_content_hash(pasteboard[1])) IN
             /\ Cardinality(rows) <= 1
             /\ monitorKind = "MacOS" => \A r \in rows : r.updated_at >= lastCheck.time
             /\ monitorKind = "Polling" => lastCheck.result = "Unchanged")
    /\ [][ (pc = "touch" /\ pc' = "refetch")
           => /\ Cardinality(clips') = Cardinality(clips)
              /\ \A r \in clips : \E q \in clips' :
                    /\ q.id = r.id
                    /\ q.content_hash = r.content_hash
                    /\ q.created_at = r.created_at
                    /\ r.id = cur.existing[1] => q.updated_at = now ]_vars

C4_Witness ==
    /\ monitorKind = "MacOS"
    /\ lastCheck.origin = "recopy"
    /\ origin = "observed"
    /\ pc = "sleep"
    /\ lastErr = "none"
    /\ pasteboard # None
    /\ \E r \in clips : /\ r.content_hash = compute_content_hash(pasteboard[1])
                        /\ r.updated_at > r.created_at
                        /\ r.updated_at = lastCheck.time

\* C5 as stated: when a check() saw Html or Rtf and the next check() sees
\* Text with the same plain text (only copies in between, no notify_wrote),
\* that check() returns Unchanged.
C5_SwitchToTextUnchanged ==
    (/\ lastCheck.result # "Err"
     /\ lastCheck.origin = "foreign"
     /\ observed.prev # None
     /\ observed.last # None
     /\ observed.prev[1].kind \in {"Html", "Rtf"}
     /\ observed.last[1].kind = "Text"
     /\ observed.prev[1].text = observed.last[1].text)
    => lastCheck.result = "Unchanged"

\* C5, amended: compute_content_hash gives Text, Html and Rtf contents with the
\* same plain text the same hash, whatever the markup; and on PollingMonitor a
\* switch from Html or Rtf to Text with the same plain text is Unchanged.
C5_HashCanonical ==
    /\ \A c1, c2 \in MonContents :
          (/\ c1.kind \in {"Text", "Html", "Rtf"}
           /\ c2.kind \in {"Text", "Html", "Rtf"}
           /\ c1.text = c2.text)
          => compute_content_hash(c1) = compute_content_hash(c2)
    /\ (/\ monitorKind = "Polling"
        /\ lastCheck.result # "Err"
        /\ lastCheck.origin = "foreign"
        /\ observed.prev # None
        /\ observed.last # None
        /\ observed.prev[1].kind \in {"Html", "Rtf"}
        /\ observed.last[1].kind = "Text"
        /\ observed.prev[1].text = observed.last[1].text)
       => lastCheck.result = "Unchanged"

C5_Witness ==
    /\ monitorKind = "Polling"
    /\ lastCheck.result = "Unchanged"
    /\ lastCheck.origin = "foreign"
    /\ observed.prev # None
    /\ observed.last # None
    /\ observed.prev[1].kind = "Rtf"
    /\ observed.last[1].kind = "Text"
    /\ observed.prev[1].text = observed.last[1].text

\* C6 as stated, for whichever monitor create_monitor built: a check() whose
\* read succeeds returns Unchanged and leaves the monitor as it was when the
\* pasteboard is empty or its hash is the last-seen hash (last reported as
\* Changed, or primed by notify_wrote); otherwise it returns Changed with that
\* hash, which becomes the last-seen hash.
C6_AnyMonitor ==
    [][ (MonitorCheck /\ lastCheck'.result # "Err")
        => IF \/ pasteboard = None
              \/ observed.seenHash = Some(compute_content_hash(pasteboard[1]))
           THEN lastCheck'.result = "Unchanged" /\ monitor' = monitor
           ELSE /\ lastCheck'.result = "Changed"
                /\ observed'.hash = Some(compute_content_hash(pasteboard[1]))
                /\ observed'.seenHash = observed'.hash ]_vars

\* C6, amended: the same, for PollingMonitor only.
C6_ChangeDetection ==
    [][ (MonitorCheck /\ monitorKind = "Polling" /\ lastCheck'.result # "Err")
        => IF \/ pasteboard = None
              \/ observed.seenHash = Some(compute_content_hash(pasteboard[1]))
           THEN lastCheck'.result = "Unchanged" /\ monitor' = monitor
           ELSE /\ lastCheck'.result = "Changed"
                /\ observed'.hash = Some(compute_content_hash(pasteboard[1]))
                /\ observed'.seenHash = observed'.hash
                /\ monitor'.last_hash = observed'.hash ]_vars

C6_Witness ==
    /\ monitorKind = "Polling"
    /\ lastCheck.result = "Changed"
    /\ observed.prev # None
    /\ observed.last # None
    /\ observed.hash = observed.seenHash
    /\ monitor.last_hash = observed.hash
    /\ compute_content_hash(observed.prev[1]) # compute_content_hash(observed.last[1])

\* C7: delete cascade.  A step that removes a row (delete_clip or
\* clear_all_clips) leaves no embedding for it and none of the sidecar files
\* its *_path columns name.
C7_DeleteCascade ==
    [][ \A r \in clips :
           (\A q \in clips' : q.id # r.id)
           => /\ \A e \in embeddings' : e.clip_id # r.id
              /\ PathsOf(r) \cap files' = {} ]_vars

C9_PathsExist ==
    \A r \in clips : PathsOf(r) \subseteq files

C9_Witness ==
    /\ \E r \in clips : IsSome(r.attachment_path) /\ IsSome(r.image_path)
    /\ \E f \in files : \A r \in clips : f \notin PathsOf(r)
    /\ lastErr = "sidecar"

\* C10: a failed tick never ends the capture loop: the loop task is alive in
\* every state, and between ticks the next check_clipboard can start.
C10_LoopSurvives ==
    /\ loopAlive
    /\ (pc = "sleep" /\ nextId <= MaxIds) => ENABLED CaptureCheck

C10_Witness ==
    /\ lastErr = "insert"
    /\ pc = "lookup"
    /\ loopAlive

\* C11: transient I/O retry.  When the previous tick was aborted by an error
\* after check() had reported Changed, nothing has replaced the pasteboard
\* since and the fault is over, the next tick's check() reports Changed again
\* (the tick goes on to build and store the clip) instead of Unchanged.
C11_RetryAfterAbort ==
    [][ (/\ pc = "sleep"
         /\ lastErr \in {"sidecar", "lookup", "insert", "touch", "refetch"}
         /\ origin = "observed"
         /\ ~ioFault
         /\ (pc' # pc \/ lastErr' # lastErr))
        => pc' = "build" ]_vars

\* C12: Integrity as dedupe signal.  When the capture tick's insert meets a
\* row that already has the clip's content_hash, the tick does not fail: it
\* goes on to the re-fetch with that row's updated_at set to now.
C12_IntegrityBecomesTouch ==
    [][ (/\ pc = "insert"
         /\ pc' # "insert"
         /\ IntegrityViolation(clips, cur.clip[1]))
        => /\ pc' = "refetch"
           /\ \E r \in WithHash(clips', cur.hash) : r.updated_at = now ]_vars

\* C13: restore write failure.  When the pasteboard write of copy_to_clipboard
\* or paste_clip fails, the command ends there with the error and without
\* priming: notify_wrote is not reached, and the monitor's last-seen hash,
\* expected hash and change counter, and the pasteboard, are as before.
C13_WriteFailureNoPriming ==
    [][ (cmd.pc = "write" /\ ioFault /\ cmd' # cmd)
        => /\ cmd' = WriteFailed
           /\ monitor' = monitor
           /\ pasteboard' = pasteboard
           /\ primed' = primed ]_vars

C13_Witness ==
    /\ cmd = WriteFailed
    /\ pasteboard # None
    /\ monitor # NewMonitor

\* C14: order within a tick.  The steps of a capture tick follow one another
\* as detect, classify, dedupe-lookup, insert-or-touch, sidecar write, emit:
\* the tick's position only moves along that order (or back to the sleep when
\* the tick ends), and a sidecar file is written only once the tick's lookup
\* and its insert-or-touch have completed.
C14_TickOrder ==
    [][ /\ (pc' # pc) =>
              \/ pc' = "sleep"
              \/ <<pc, pc'>> \in {<<"sleep", "build">>, <<"build", "lookup">>,
                                  <<"lookup", "touch">>, <<"lookup", "insert">>,
                                  <<"touch", "refetch">>, <<"insert", "refetch">>}
        /\ (files' # files) => pc = "refetch" ]_vars

\* C15 (as stated): float-to-top.  After every touch of an existing row its
\* updated_at is greater than its value before the touch.
C15_TouchStrictlyIncreases ==
    [][ (pc = "touch" /\ pc' = "refetch")
        => \A r \in clips : r.id = cur.existing[1]
              => \E s \in clips' : /\ s.id = r.id
                                   /\ s.updated_at > r.updated_at ]_vars

\* C15 (amended): after every touch of an existing row its updated_at is the
\* current second, which is not less than its value before the touch; the row
\* is otherwise as it was.
C15_TouchSetsNow ==
    [][ (pc = "touch" /\ pc' = "refetch")
        => \A r \in clips : r.id = cur.existing[1]
              => \E s \in clips' : /\ s = [r EXCEPT !.updated_at = now]
                                   /\ s.updated_at >= r.updated_at ]_vars

C15_Witness == \E r \in clips : r.updated_at > r.created_at

\* C16: access count.  Each copy_to_clipboard / paste_clip that names an
\* existing row raises that row's access_count by exactly one, and no step of
\* the capture tick changes any row's access_count.
C16_AccessCounted ==
    [][ /\ (cmd.pc = "idle" /\ cmd'.pc = "write" /\ IsSome(cmd'.id))
           => \A r \in clips : r.id = cmd'.id[1]
                 => \E s \in clips' : /\ s.id = r.id
                                      /\ s.access_count = r.access_count + 1
        /\ (pc' # pc)
           => \A r \in clips : \A s \in clips' :
                 s.id = r.id => s.access_count = r.access_count ]_vars

HasTask(id) == \E t \in embTasks : t.clip_id = id

HasEmbedding(id) == \E e \in embeddings : e.clip_id = id

C19_Threshold ==
    /\ [](\A i \in 1..Len(search.result) :
             /\ search.result[i].similarity_score # None
             /\ search.result[i].similarity_score[1] >= search.threshold)
    /\ [][ (search.pc = "fetch" /\ search'.pc = "done")
           => \A i \in 1..Len(search'.result) :
                 \E e \in embeddings :
                    /\ e.clip_id = search'.result[i].id
                    /\ search'.result[i].similarity_score =
                          Some(cosine_similarity(search.query_vector, e.vector))
                    /\ cosine_similarity(search.query_vector, e.vector)
                          >= search.threshold ]_vars

\* two clips returned, one of them scoring exactly the threshold
C19_Witness ==
    /\ search.pc = "done"
    /\ Len(search.result) >= 2
    /\ \E i \in 1..Len(search.result) :
          search.result[i].similarity_score = Some(search.threshold)

\* C20: semantic pagination.  The call returns (it does not panic), and the
\* page is exactly the elements [offset, offset+limit) of the list of
\* above-threshold embeddings sorted by score descending, in that order; so an
\* offset at or past the end gives the empty page and consecutive pages are
\* disjoint.
C20_Pagination ==
    search.pc = "done"
    => LET ranked == search.scored_clips
           lo == (IF search.offset < 0 THEN 0 ELSE search.offset) + 1
           hi == IF search.offset + search.limit < Len(ranked)
                 THEN search.offset + search.limit ELSE Len(ranked)
           expected == SubSeq(ranked, lo, hi)
       IN /\ ~search.panicked
          /\ \A i \in 1..(Len(ranked) - 1) : ranked[i].score >= ranked[i + 1].score
          /\ Len(search.result) = Len(expected)
          /\ \A i \in 1..Len(expected) : search.result[i].id = expected[i].id

\* C21: search path selection.  search_clips_paginated takes the semantic
\* path exactly when semantic search is requested, a model is loaded and the
\* trimmed query is not empty; in every other case it calls the FTS search
\* with the same query and the limit and offset of the call.
C21_PathSelection ==
    [][ (search.pc = "idle" /\ search'.pc # "idle")
        => /\ search'.path = "semantic"
                <=> /\ search'.use_semantic_search
                    /\ IsSome(model.model)
                    /\ \E i \in 1..Len(search'.query) :
                          search'.query[i] \notin {" ", "nbsp"}
           /\ search'.path # "semantic"
                => /\ search'.path = "fts"
                   /\ search'.fts = <<search'.query, search'.limit, search'.offset>>
           /\ search'.path = "semantic" => search'.fts = <<>> ]_vars

\* a whitespace-only query with semantic search requested and a model loaded
\* went to the FTS path
C21_Witness ==
    /\ search.path = "fts"
    /\ search.use_semantic_search
    /\ IsSome(model.model)
    /\ search.query # <<>>

\* the escaping written as one pass over the characters: a phrase is opened
\* at the first character of a token and closed, with its *, after the last
RECURSIVE OnePass(_, _, _)
OnePass(q, inToken, any) ==
    IF q = <<>> THEN (IF inToken THEN <<"\"", "*">> ELSE <<>>)
    ELSE IF Head(q) \in {" ", "nbsp"}
    THEN (IF inToken THEN <<"\"", "*">> ELSE <<>>) \o OnePass(Tail(q), FALSE, any)
    ELSE (IF inToken THEN <<>>
          ELSE (IF any THEN <<" ", "A", "N", "D", " ">> ELSE <<>>) \o <<"\"">>)
         \o (IF Head(q) = "\"" THEN <<"\"", "\"">> ELSE <<Head(q)>>)
         \o OnePass(Tail(q), TRUE, TRUE)

RECURSIVE AsCString(_)
AsCString(s) ==
    IF s = <<>> \/ Head(s) = "nul" THEN <<>> ELSE <<Head(s)>> \o AsCString(Tail(s))

\* the position after the string that opens at s[i - 1], 0 if unterminated
RECURSIVE StringEnd(_, _)
StringEnd(s, i) ==
    IF i > Len(s) THEN 0
    ELSE IF s[i] # "\"" THEN StringEnd(s, i + 1)
    ELSE IF i + 1 <= Len(s) /\ s[i + 1] = "\"" THEN StringEnd(s, i + 2)
    ELSE i + 1

\* s from position i on is: phrase, optional *, then nothing or ' AND ' and
\* more of the same
RECURSIVE Fts5Parses(_, _)
Fts5Parses(s, i) ==
    /\ i <= Len(s)
    /\ s[i] = "\""
    /\ LET e == StringEnd(s, i + 1)
           p == IF e # 0 /\ e <= Len(s) /\ s[e] = "*" THEN e + 1 ELSE e
       IN /\ e # 0
          /\ \/ p > Len(s)
             \/ /\ p + 4 <= Len(s)
                /\ SubSeq(s, p, p + 4) = <<" ", "A", "N", "D", " ">>
                /\ Fts5Parses(s, p + 5)

\* C23: FTS escape safety.  Whatever the query, the text that search_paginated
\* binds to MATCH parses in the FTS5 grammar as a conjunction of quoted prefix
\* phrases, so the search raises no syntax error.
C23_EscapeParses ==
    (call.fn = "search_paginated" /\ call.result.has_text_query)
    => Fts5Parses(AsCString(call.result.escaped_query), 1)

(***************************************************************************)
(* Content classification                                                  *)
(***************************************************************************)
PriorityOrder == <<"jwt", "url", "email", "color", "json", "path", "timestamp", "code">>

Accepts(kind, text) ==
    CASE kind = "jwt"       -> detect_jwt(text) # None
      [] kind = "url"       -> detect_url(text) # None
      [] kind = "email"     -> detect_email(text) # None
      [] kind = "color"     -> detect_color(text) # None
      [] kind = "json"      -> detect_json(text) # None
      [] kind = "path"      -> detect_path(text) # None
      [] kind = "timestamp" -> detect_timestamp(text) # None
      [] kind = "code"      -> detect_code(text) # None

\* C24: detect returns the kind of the first detector, in the order JWT, URL,
\* Email, Color, JSON, Path, Timestamp, Code, that accepts the trimmed text: a
\* kind is returned only if every earlier detector rejects the text, and Text
\* is returned exactly when no detector accepts it
C24_ClassifierPriority ==
    call.fn = "detect" =>
        LET trimmed   == trim(call.arg)
            accepting == {i \in 1..Len(PriorityOrder) : Accepts(PriorityOrder[i], trimmed)}
        IN  /\ accepting = {} <=> call.result.detected_type = "text"
            /\ \A i \in accepting :
                   (\A j \in accepting : i <= j)
                       => call.result.detected_type = PriorityOrder[i]

\* a text that the Path and the Code detector both accept was classified
C24_Witness ==
    /\ call.fn = "detect"
    /\ Accepts("path", trim(call.arg))
    /\ Accepts("code", trim(call.arg))
    /\ call.result.detected_type = "path"

\* the integer a text is the literal of, when no detector before
\* detect_timestamp accepts the text
IntegerLiteral(text) ==
    IF \E i \in 1..6 : Accepts(PriorityOrder[i], text) THEN None ELSE parse(text)

\* lo <= v < hi
InHalfOpen(v, lo, hi) == le(lo, v) /\ ~le(hi, v)

\* lo <= v <= hi
InClosed(v, lo, hi) == le(lo, v) /\ le(v, hi)

\* C25: an integer literal v is classified as Timestamp if and only if
\* 978307200 <= v < 2208988800 (unit seconds) or
\* 978307200000 <= v < 2208988800000 (unit milliseconds)
C25_TimestampRange ==
    call.fn = "detect" /\ IntegerLiteral(trim(call.arg)) # None =>
        LET v == IntegerLiteral(trim(call.arg))[1]
            seconds == InHalfOpen(v, I64("978307200"), I64("2208988800"))
            millis  == InHalfOpen(v, I64("978307200000"), I64("2208988800000"))
        IN  /\ call.result.detected_type = "timestamp" <=> seconds \/ millis
            /\ seconds => call.result.unit = "seconds"
            /\ millis => call.result.unit = "milliseconds"

\* C25 (amended): an integer literal v is classified as Timestamp if and only
\* if 978307200 <= v <= 2208988800 (unit seconds) or
\* 978307200000 <= v <= 2208988800000 (unit milliseconds), both ends included
C25_TimestampRangeClosed ==
    call.fn = "detect" /\ IntegerLiteral(trim(call.arg)) # None =>
        LET v == IntegerLiteral(trim(call.arg))[1]
            seconds == InClosed(v, I64("978307200"), I64("2208988800"))
            millis  == InClosed(v, I64("978307200000"), I64("2208988800000"))
        IN  /\ call.result.detected_type = "timestamp" <=> seconds \/ millis
            /\ seconds => call.result.unit = "seconds"
            /\ millis => call.result.unit = "milliseconds"

\* the literal 2208988800, the upper end of the seconds range, was classified
C25_Witness ==
    /\ call.fn = "detect"
    /\ call.arg = Chars("2208988800")
    /\ call.result = DetectionResult("timestamp", "seconds")

(***************************************************************************)
(* Embedding vectors as stored bytes                                       *)
(***************************************************************************)
\* C26: for every sequence v of 32-bit values, bytes_to_vector(vector_to_bytes(v))
\* equals v element by element, vector_to_bytes(v) has exactly 4 * len(v) bytes,
\* and each element is encoded little-endian: byte k of an element carries bits
\* 8k .. 8k+7 of its 32 bits
C26_VectorRoundTrip ==
    call.fn = "bytes_to_vector" =>
        LET v == call.arg
            bytes == call.result.bytes
        IN  /\ Len(call.result.vector) = Len(v)
            /\ \A k \in 1..Len(v) : call.result.vector[k] = v[k]
            /\ Len(bytes) = 4 * Len(v)
            /\ \A k \in 1..Len(v) :
                 LET b == [i \in 0..3 |-> bytes[4 * (k - 1) + i + 1]] IN
                 /\ \A i \in 0..3 : b[i] \in 0..255
                 /\ v[k].fraction = b[0] + 256 * b[1] + 65536 * (b[2] % 128)
                 /\ v[k].exponent = b[2] \div 128 + 2 * (b[3] % 128)
                 /\ v[k].sign = b[3] \div 128

\* a vector of two different elements, neither all zeros, was stored and read back
C26_Witness ==
    /\ call.fn = "bytes_to_vector"
    /\ Len(call.arg) = 2
    /\ call.arg[1] # call.arg[2]
    /\ call.arg[1].fraction = 4194305 /\ call.arg[1].exponent = 127
    /\ call.result.vector = call.arg

(***************************************************************************)
(* Startup                                                                 *)
(***************************************************************************)
\* the setup task has finished and the settings it loaded had
\* semantic_search_enabled = true
StartedEnabled ==
    /\ startup.pc = "done"
    /\ startup.loaded # None
    /\ startup.loaded[1].semantic_search_enabled

ModelMissing ==
    startup.loaded[1].semantic_model \notin get_downloaded_models(startup.cache)

LoadFails(c) == loads[c].pc = "try_new" /\ loads'[c].pc = "returned"

\* C28: if init_model fails to load the model, the error is surfaced to the
\* caller, is_ready() is false afterwards, and capture ticks insert clips without
\* scheduling embedding generation (they schedule one exactly when
\* get_model_info() gives a model)
C28_FailedLoadNotReady ==
    [][\A c \in Callers :
          LoadFails(c) =>
              /\ loads'[c].result = "Err"
              /\ ~is_ready'
              /\ get_model_info' = None]_vars

\* C28 (amended): a failed load surfaces its error and leaves model and
\* loaded_model_name as they were; a capture tick that inserts while no model
\* name is stored schedules no embedding
C28_FailedLoadChangesNothing ==
    [][/\ \A c \in Callers :
             LoadFails(c) => loads'[c].result = "Err" /\ model' = model
       /\ pc = "insert" /\ pc' = "refetch" /\ get_model_info = None
             => embTasks' = embTasks]_vars

\* a load has failed, no model is loaded, and the capture loop has just
\* inserted a clip with text without scheduling an embedding
C28_Witness ==
    /\ \E c \in Callers : loads[c].pc = "returned" /\ loads[c].result = "Err"
    /\ \A c \in Callers : loads[c].result # "Ok" /\ loads[c].pc \in {"idle", "returned"}
    /\ ~is_ready
    /\ pc = "refetch"
    /\ cur.clip # None
    /\ \E r \in clips : r.id = cur.clip[1].id
    /\ embTasks = {}

\* C30: init_model does not hold the lock of model while the model is being
\* loaded or downloaded, only while it stores the loaded model, so is_ready()
\* issued during a load does not wait for the load to finish
C30_LockOnlyWhileStoring ==
    /\ \A c \in Callers : loads[c].pc = "try_new" => modelLock # c
    /\ modelLock # "free" => loads[modelLock].pc = "store_name"
    /\ startup.pc = "done" /\ (\A c \in Callers : loads[c].pc # "store_name")
           => ENABLED get_semantic_search_status

\* is_ready() returned while a load was in TextEmbedding::try_new
C30_Witness ==
    /\ call.fn = "is_ready"
    /\ call.arg = TRUE
    /\ \E c \in Callers : loads[c].pc = "try_new"

\* some toggle command has read the flag and not yet written it
ToggleInFlight == \E i \in Invocations : toggles.calls[i].pc = "update"

\* C29: toggle_pin and toggle_favorite lose no toggle: whenever no toggle is
\* between its read and its write, each flag of each row is the initial flag
\* (0) flipped once for every toggle of that flag on that id that has
\* returned Ok, whatever the interleaving of the calls was
C29_NoToggleLost ==
    ~ToggleInFlight =>
        \A r \in clips : \A column \in {"is_pinned", "is_favorite"} :
            r[column] = toggles.returned[r.id][column]

\* the id create_image_clip / create_office_clip gives the files of the running tick
TickId ==
    IF pc = "build" THEN nextId
    ELSE IF IsSome(cur.clip) THEN cur.clip[1].id ELSE 0

\* C31: sidecar files follow the row.  When a tick ends in a dedupe (touch) or
\* in a failure (sidecar write, lookup, touch or insert), every file the tick
\* wrote under clipboard_data is named by a path column of an existing row: the
\* tick leaves no new file behind.
C31_NoFileLeftBehind ==
    [][ (/\ pc # "sleep"
         /\ pc' = "sleep"
         /\ (pc = "refetch" => IsSome(cur.existing)))
        => \A f \in files' :
               f[2] = TickId => \E r \in clips' : f \in PathsOf(r) ]_vars

\* C32: counter fast path.  MacOSMonitor.check() returns Unchanged, reads
\* nothing (it cannot fail with the provider's read error) and changes no
\* field whenever the provider's native counter (a positive changeCount)
\* equals the stored one; notify_wrote stores the counter as it is after the
\* write, so the check that follows a restore takes this path.
C32_CounterFastPath ==
    [][ monitorKind = "MacOS" =>
          /\ (MonitorCheck /\ get_change_count > 0
                /\ get_change_count = monitor.last_change_count)
             => lastCheck'.result = "Unchanged" /\ monitor' = monitor
          /\ (\E c \in MonContents : MonitorNotifyWrote(c))
             => monitor'.last_change_count = changeCount'
          /\ (MonitorCheck /\ primed)
             => lastCheck'.result = "Unchanged" /\ monitor' = monitor ]_vars

C32_Witness ==
    /\ monitorKind = "MacOS"
    /\ lastCheck.primed
    /\ lastCheck.result = "Unchanged"
    /\ monitor.last_wrote_hash # None
    /\ monitor.last_change_count = changeCount
    /\ changeCount > 1

\* C33: a self-write expectation is consumed by the tick that follows the
\* write.  In MacOSMonitor, a copy made by another application after the last
\* successful check (so after the tick that followed any notify_wrote) is
\* reported as Changed by the next check that can read it, whatever its
\* content is, also when it equals what was last written by notify_wrote.
C33_ExpectationConsumed ==
    [][ (/\ MonitorCheck
         /\ monitorKind = "MacOS"
         /\ origin = "foreign"
         /\ pasteboard # None
         /\ lastCheck'.result # "Err")
        => lastCheck'.result = "Changed" ]_vars

\* C34: a failed copy/paste command leaves the clip store unchanged.  When the
\* pasteboard write of copy_to_clipboard or paste_clip fails, the row named by
\* id has the updated_at it had when the command began.
C34_FailedRestoreKeepsRow ==
    [][ (cmd.pc = "write" /\ cmd' = WriteFailed /\ IsSome(cmd.id))
        => \A r \in clips' : r.id = cmd.id[1] => Some(r.updated_at) = cmd.before ]_vars

\* C35: embedding labels are truthful.  Every stored embedding row's model
\* field names the model that produced its vector, for the background task of
\* a capture tick and for generate_embedding.
C35_TruthfulLabels ==
    \A e \in embeddings : e.model = e.by

\* the content of the last check() that reported Changed
LastChanged == cur.content

\* the string a content of a text kind, or the text it is compared with, hashes
SameString(c, d) ==
    \/ c.kind = "Office" /\ c.text # "" /\ c.text = d.text
    \/ c.kind = "Files" /\ Join(c.paths, "|") = d.text

\* C36 (as stated): captures of different kinds are merged only among Text,
\* Html and Rtf.  An Office or Files copy is reported Unchanged by
\* PollingMonitor only after a content of its own kind, and is deduplicated
\* only into a row of its own kind.
C36_KindsNotMerged ==
    [][ /\ (/\ CaptureCheck
            /\ monitorKind = "Polling"
            /\ pasteboard # None
            /\ pasteboard[1].kind \in {"Office", "Files"}
            /\ lastCheck'.result = "Unchanged")
           => /\ IsSome(LastChanged)
              /\ LastChanged[1].kind = pasteboard[1].kind
        /\ (/\ CaptureLookup
            /\ cur.content[1].kind \in {"Office", "Files"}
            /\ pc' = "touch")
           => \A r \in clips :
                  r.id = cur'.existing[1] => r.content_type \in {"office", "files"} ]_vars

\* C36, amended: captures are merged by canonical hash alone, whatever their
\* kinds.  An Office or Files content has the hash of a Text, Html or Rtf
\* content exactly when its non-empty extracted text, or its '|'-joined path
\* list, is that content's plain text; PollingMonitor reports a copy Unchanged
\* exactly when its hash is the last one seen, and a tick that reaches the
\* lookup touches a row exactly when a row has that hash.
C36_MergedByHash ==
    [][ /\ \A c \in {k \in KindContents : k.kind \in {"Office", "Files"}} :
           \A d \in {k \in KindContents : k.kind = "Text"} :
               (compute_content_hash(c) = compute_content_hash(d)) <=> SameString(c, d)
        /\ (/\ CaptureCheck
            /\ monitorKind = "Polling"
            /\ pasteboard # None
            /\ lastCheck'.result # "Err")
           => (lastCheck'.result = "Unchanged"
                 <=> monitor.last_hash = Some(compute_content_hash(pasteboard[1])))
        /\ (CaptureLookup /\ pc' # "sleep")
           => (pc' = "touch"
                 <=> \E r \in clips :
                        r.content_hash = compute_content_hash(cur.content[1])) ]_vars

C36_Witness ==
    /\ pc = "touch"
    /\ cur.content[1].kind = "Office"
    /\ \E r \in clips : /\ r.id = cur.existing[1]
                        /\ r.content_type = "text"
                        /\ r.content_text = cur.content[1].text

\* the caller has not received the row with this id as it is now
Unseen(id) ==
    \E r \in clips :
        /\ r.id = id
        /\ (call.fn # "get_clips_after_timestamp" \/ <<r.id, r.updated_at>> \notin call.seen)

\* C37: incremental refresh is complete.  A caller that keeps calling
\* get_clips_after_timestamp(t) with t the largest updated_at it has seen
\* eventually receives every row as it is after an insert or a touch: a row
\* the caller has not seen in its present state is eventually returned to it
\* (or deleted or touched again, and then that state is the one to receive).
C37_RefreshComplete ==
    \A id \in 1 .. MaxIds : Unseen(id) ~> ~Unseen(id)

C38_DeleteAffectsOnlyNamed ==
    [][(/\ SvcStep("delete_model")
        /\ \A t \in Ops \ {"delete_model"} : svc.pc[t] = 0
        /\ IsSome(model.loaded_model_name)
        /\ model.loaded_model_name # Some(svc.arg["delete_model"]))
       => /\ IsSome(model'.model) = is_ready
          /\ model'.loaded_model_name = get_model_info
          /\ startup.cache \ startup'.cache
                \subseteq {cache_dir_of(svc.arg["delete_model"])}]_vars

\* C40: a capture tick never panics on a Changed result.  Whatever the
\* length of the hash string, from 1 to 16 hexadecimal digits,
\* check_clipboard completes and the capture loop keeps running.
C40_TickNeverPanics == loopAlive /\ lastErr # "panic"

====
